---- MODULE Spec2Model ----
(***************************************************************************)
(* Model of the Carrion interpreter core: the indentation-sensitive lexer  *)
(* (lexer.go) and the tree-walking evaluator (evaluator.go).               *)
(*                                                                         *)
(* Source text is a sequence of one-character strings.  The lexer is the   *)
(* record l (the fields of the Go struct Lexer); tokens is the stream of   *)
(* token types NextToken has returned so far.                              *)
(***************************************************************************)
EXTENDS Integers, Sequences, FiniteSets, TLC

VARIABLES
    l,          \* the Lexer struct
    tokens,     \* token types returned by NextToken so far
    prog,       \* the AST handed to Eval
    store,      \* evaluator state: environment bindings, array heap, trace
    outcome,    \* result of evalProgram's loop so far (Nil before the first statement)
    pc,         \* index of the next statement of evalProgram's loop
    phase,      \* "lexing", "eval" while evalProgram runs, "done" after it returned
    session     \* number of top-level evaluation sessions started in this process

vars == <<l, tokens, prog, store, outcome, pc, phase, session>>

(***************************************************************************)
(* Bounds                                                                  *)
(***************************************************************************)
MaxLines == 3       \* physical lines of a generated source text
MaxEOF == 2         \* NextToken calls observed after the first EOF
MaxBody == 3        \* statements in a generated loop body or block
MaxClauses == 2     \* ensnare clauses of a generated attempt statement
MaxTargets == 2     \* targets of a generated tuple pattern
MaxOps == 2         \* ++ / -- statements of a generated program
MaxMethods == 2     \* methods of a generated parent grimoire
MaxImports == 2     \* import statements of a generated program
MaxSessions == 2    \* top-level evaluation sessions in one process
MaxDepth == 2       \* nesting depth of the calls of a generated program
MaxElements == 2    \* elements of a generated Array or Tuple
MaxEnvs == 3        \* environments of a generated environment chain
MaxStack == 3       \* nested calls that fit on the stack of the process

(***************************************************************************)
(* Characters                                                              *)
(***************************************************************************)
Letters == {"a", "b", "c", "d", "e", "f", "g", "h", "i", "j", "k", "l", "m",
            "n", "o", "p", "q", "r", "s", "t", "u", "v", "w", "x", "y", "z"}

Digits == {"0", "1", "2", "3", "4", "5", "6", "7", "8", "9"}

NUL == "NUL"    \* the byte 0 that peekChar returns past the end of the line

isLetter(ch) == ch \in Letters \/ ch = "_"

isDigit(ch) == ch \in Digits

isLetterOrDigit(ch) == isLetter(ch) \/ ch \in Digits

isHorizontalWhitespace(ch) == ch = " " \/ ch = "\t"

(***************************************************************************)
(* strings.Split(input, "\n"): always at least one (possibly empty) line.  *)
(***************************************************************************)
RECURSIVE SplitFrom(_, _, _)
SplitFrom(input, i, cur) ==
    IF i > Len(input) THEN <<cur>>
    ELSE IF input[i] = "\n" THEN <<cur>> \o SplitFrom(input, i + 1, <<>>)
    ELSE SplitFrom(input, i + 1, Append(cur, input[i]))

Split(input) == SplitFrom(input, 1, <<>>)

(***************************************************************************)
(* lexer.New                                                               *)
(***************************************************************************)
New(input) ==
    LET rawLines == Split(input) IN
    [lines          |-> rawLines,
     lineIndex      |-> 0,
     charIndex      |-> 0,
     indentStack    |-> <<0>>,
     currLine       |-> IF Len(rawLines) = 0 THEN <<>> ELSE rawLines[1],
     finished       |-> Len(rawLines) = 0,
     indentResolved |-> FALSE]

\* l.currLine[i] of the Go code (0-based index)
At(lx, i) == lx.currLine[i + 1]

peekChar(lx) ==
    IF lx.charIndex + 1 >= Len(lx.currLine) THEN NUL
    ELSE At(lx, lx.charIndex + 1)

peekCharIsLetterOrDigitOrUnderscore(lx) ==
    LET nxt == peekChar(lx) IN
    IF nxt = NUL THEN FALSE ELSE isLetterOrDigit(nxt) \/ nxt = "_"

RECURSIVE measureFrom(_, _, _)
measureFrom(line, i, count) ==
    IF i > Len(line) THEN count
    ELSE IF line[i] = " " THEN measureFrom(line, i + 1, count + 1)
    ELSE IF line[i] = "\t" THEN measureFrom(line, i + 1, count + 4)
    ELSE count

measureIndent(line) == measureFrom(line, 1, 0)

advanceLine(lx) ==
    IF lx.lineIndex + 1 >= Len(lx.lines)
    THEN [lx EXCEPT !.lineIndex = lx.lineIndex + 1, !.indentResolved = FALSE,
                    !.charIndex = 0, !.finished = TRUE, !.currLine = <<>>]
    ELSE [lx EXCEPT !.lineIndex = lx.lineIndex + 1, !.indentResolved = FALSE,
                    !.charIndex = 0, !.currLine = lx.lines[lx.lineIndex + 2]]

\* The result of a lexer step: the lexer afterwards and the token type.
Tok(lx, type) == [l |-> lx, type |-> type]

\* INDENT without recording the new level on the indent stack
handleIndentChange_noPush(lx, newIndent) ==
    LET currentIndent == lx.indentStack[Len(lx.indentStack)] IN
    IF newIndent = currentIndent
    THEN Tok([lx EXCEPT !.charIndex = newIndent], "NEWLINE")
    ELSE IF newIndent > currentIndent
    THEN Tok([lx EXCEPT !.charIndex = newIndent], "INDENT")
    ELSE Tok([lx EXCEPT !.indentStack =
                            SubSeq(lx.indentStack, 1, Len(lx.indentStack) - 1)],
             "DEDENT")

\* a line at the current level recorded as a level of its own
handleIndentChange_pushOnEqual(lx, newIndent) ==
    LET currentIndent == lx.indentStack[Len(lx.indentStack)] IN
    IF newIndent >= currentIndent
    THEN Tok([lx EXCEPT !.indentStack = Append(lx.indentStack, newIndent),
                        !.charIndex = newIndent],
             IF newIndent = currentIndent THEN "NEWLINE" ELSE "INDENT")
    ELSE Tok([lx EXCEPT !.indentStack =
                            SubSeq(lx.indentStack, 1, Len(lx.indentStack) - 1)],
             "DEDENT")

handleIndentChange(lx, newIndent) ==
    LET currentIndent == lx.indentStack[Len(lx.indentStack)] IN
    IF newIndent = currentIndent
    THEN Tok([lx EXCEPT !.charIndex = newIndent], "NEWLINE")
    ELSE IF newIndent > currentIndent
    THEN Tok([lx EXCEPT !.indentStack = Append(lx.indentStack, newIndent),
                        !.charIndex = newIndent], "INDENT")
    ELSE Tok([lx EXCEPT !.indentStack =
                            SubSeq(lx.indentStack, 1, Len(lx.indentStack) - 1)],
             "DEDENT")

skipLineComment(lx) == [lx EXCEPT !.charIndex = Len(lx.currLine)]

RECURSIVE blockCommentLoop(_)
blockCommentLoop(lx) ==
    IF lx.charIndex >= Len(lx.currLine)
    THEN LET nl == advanceLine(lx) IN
         IF nl.finished THEN nl ELSE blockCommentLoop(nl)
    ELSE IF At(lx, lx.charIndex) = "*" /\ peekChar(lx) = "/"
    THEN [lx EXCEPT !.charIndex = lx.charIndex + 2]
    ELSE blockCommentLoop([lx EXCEPT !.charIndex = lx.charIndex + 1])

skipBlockComment(lx) ==
    blockCommentLoop([lx EXCEPT !.charIndex = lx.charIndex + 2])

\* One character of a string body: a backslash consumes the escaped
\* character with it (when there is one), any other character just itself.
stringChar(lx) ==
    IF At(lx, lx.charIndex) = "\\"
    THEN [lx EXCEPT !.charIndex = lx.charIndex + 2]
    ELSE [lx EXCEPT !.charIndex = lx.charIndex + 1]

RECURSIVE tripleLoop(_, _)
tripleLoop(lx, quoteChar) ==
    IF lx.charIndex >= Len(lx.currLine)
    THEN LET nl == advanceLine(lx) IN
         IF nl.finished THEN nl ELSE tripleLoop(nl, quoteChar)
    ELSE IF /\ lx.charIndex + 2 < Len(lx.currLine)
            /\ At(lx, lx.charIndex) = quoteChar
            /\ At(lx, lx.charIndex + 1) = quoteChar
            /\ At(lx, lx.charIndex + 2) = quoteChar
    THEN [lx EXCEPT !.charIndex = lx.charIndex + 3]
    ELSE tripleLoop(stringChar(lx), quoteChar)

RECURSIVE singleLoop(_, _)
singleLoop(lx, quoteChar) ==
    IF lx.charIndex >= Len(lx.currLine) THEN lx
    ELSE IF At(lx, lx.charIndex) = quoteChar
    THEN [lx EXCEPT !.charIndex = lx.charIndex + 1]
    ELSE singleLoop(stringChar(lx), quoteChar)

\* The body shared by readString and readFString, entered with charIndex on
\* the opening quote.
stringBody(lx, tripleType, singleType) ==
    LET quoteChar == At(lx, lx.charIndex)
        l1 == [lx EXCEPT !.charIndex = lx.charIndex + 1]
        isTriple == /\ l1.charIndex + 1 < Len(l1.currLine)
                    /\ At(l1, l1.charIndex) = quoteChar
                    /\ At(l1, l1.charIndex + 1) = quoteChar
    IN  IF isTriple
        THEN Tok(tripleLoop([l1 EXCEPT !.charIndex = l1.charIndex + 2], quoteChar),
                 tripleType)
        ELSE Tok(singleLoop(l1, quoteChar), singleType)

readString(lx) == stringBody(lx, "DOCSTRING", "STRING")

readFString(lx) ==
    IF lx.charIndex >= Len(lx.currLine) THEN Tok(lx, "ILLEGAL")
    ELSE stringBody(lx, "FSTRING", "FSTRING")

\* token.LookupIdent: the keyword table, else IDENT.
LookupIdent(literal) ==
    IF literal = <<"i", "f">> THEN "IF" ELSE "IDENT"

RECURSIVE identEnd(_, _)
identEnd(lx, i) ==
    IF i < Len(lx.currLine) /\ isLetterOrDigit(At(lx, i))
    THEN identEnd(lx, i + 1) ELSE i

readIdentifier(lx) ==
    LET start == lx.charIndex
        end == identEnd(lx, start)
        literal == SubSeq(lx.currLine, start + 1, end)
    IN  Tok([lx EXCEPT !.charIndex = end], LookupIdent(literal))

\* readNumber's loop: <<index after the number, isFloat>>
RECURSIVE numberEnd(_, _, _)
numberEnd(lx, i, isFloat) ==
    IF i >= Len(lx.currLine) THEN <<i, isFloat>>
    ELSE IF At(lx, i) = "."
    THEN IF isFloat THEN <<i, isFloat>> ELSE numberEnd(lx, i + 1, TRUE)
    ELSE IF ~isDigit(At(lx, i)) THEN <<i, isFloat>>
    ELSE numberEnd(lx, i + 1, isFloat)

readNumber(lx) ==
    LET e == numberEnd(lx, lx.charIndex, FALSE) IN
    Tok([lx EXCEPT !.charIndex = e[1]], IF e[2] THEN "FLOAT" ELSE "INT")

\* The operators of NextToken's switch that look at the following character:
\* <<second character, token type>> pairs, tried in the order of the code.
TwoCharOps(ch) ==
    CASE ch = "=" -> << <<"=", "EQ">> >>
      [] ch = "+" -> << <<"+", "PLUS_INCREMENT">>, <<"=", "INCREMENT">> >>
      [] ch = "-" -> << <<"-", "MINUS_DECREMENT">>, <<"=", "DECREMENT">> >>
      [] ch = "*" -> << <<"=", "MULTASSGN">>, <<"*", "EXPONENT">> >>
      [] ch = "/" -> << <<"=", "DIVASSGN">> >>
      [] ch = "<" -> << <<"<", "LSHIFT">>, <<"=", "LE">> >>
      [] ch = ">" -> << <<">", "RSHIFT">>, <<"=", "GE">> >>
      [] ch = "!" -> << <<"=", "NOT_EQ">> >>
      [] OTHER -> <<>>

OneCharOps ==
    [c \in {"=", "+", "-", "*", "/", "%", "<", ">", "^", "~", "!", ",", ":",
            ";", "(", ")", "[", "]", "{", "}", ".", "#", "&", "|", "@"} |->
        CASE c = "=" -> "ASSIGN"    [] c = "+" -> "PLUS"
          [] c = "-" -> "MINUS"     [] c = "*" -> "ASTERISK"
          [] c = "/" -> "SLASH"     [] c = "%" -> "MOD"
          [] c = "<" -> "LT"        [] c = ">" -> "GT"
          [] c = "^" -> "XOR"       [] c = "~" -> "TILDE"
          [] c = "!" -> "BANG"      [] c = "," -> "COMMA"
          [] c = ":" -> "COLON"     [] c = ";" -> "SEMICOLON"
          [] c = "(" -> "LPAREN"    [] c = ")" -> "RPAREN"
          [] c = "[" -> "LBRACK"    [] c = "]" -> "RBRACK"
          [] c = "{" -> "LBRACE"    [] c = "}" -> "RBRACE"
          [] c = "." -> "DOT"       [] c = "#" -> "HASH"
          [] c = "&" -> "AMPERSAND" [] c = "|" -> "PIPE"
          [] c = "@" -> "AT"]

\* NextToken on a finished lexer: EOF, and the lexer is left as it is.
eofToken_advances(lx) == Tok([lx EXCEPT !.lineIndex = lx.lineIndex + 1], "EOF")

eofToken(lx) == Tok(lx, "EOF")

(***************************************************************************)
(* Lexer.NextToken                                                         *)
(***************************************************************************)
RECURSIVE NextToken(_)
NextToken(lx) ==
    IF lx.finished THEN eofToken(lx)
    ELSE IF lx.charIndex = 0 /\ ~lx.indentResolved
    THEN handleIndentChange([lx EXCEPT !.indentResolved = TRUE],
                            measureIndent(lx.currLine))
    ELSE IF lx.charIndex >= Len(lx.currLine)
    THEN Tok(advanceLine(lx), "NEWLINE")
    ELSE
    LET ch == At(lx, lx.charIndex)
        next == peekChar(lx)
        two == TwoCharOps(ch)
        hit == {i \in 1..Len(two) : two[i][1] = next}
    IN  IF isHorizontalWhitespace(ch)
        THEN NextToken([lx EXCEPT !.charIndex = lx.charIndex + 1])
        ELSE IF ch = "f"
        THEN IF next = "\"" \/ next = "'"
             THEN readFString([lx EXCEPT !.charIndex = lx.charIndex + 1])
             ELSE readIdentifier(lx)
        ELSE IF hit # {}
        THEN Tok([lx EXCEPT !.charIndex = lx.charIndex + 2],
                 two[CHOOSE i \in hit : \A j \in hit : i <= j][2])
        ELSE IF ch = "_"
        THEN IF peekCharIsLetterOrDigitOrUnderscore(lx)
             THEN readIdentifier(lx)
             ELSE Tok([lx EXCEPT !.charIndex = lx.charIndex + 1], "UNDERSCORE")
        ELSE IF ch = "/" /\ next = "/"
        THEN NextToken(skipLineComment(lx))
        ELSE IF ch = "/" /\ next = "*"
        THEN NextToken(skipBlockComment(lx))
        ELSE IF ch \in DOMAIN OneCharOps
        THEN Tok([lx EXCEPT !.charIndex = lx.charIndex + 1], OneCharOps[ch])
        ELSE IF ch = "\"" \/ ch = "'"
        THEN readString(lx)
        ELSE IF isLetter(ch) THEN readIdentifier(lx)
        ELSE IF isDigit(ch) THEN readNumber(lx)
        ELSE Tok([lx EXCEPT !.charIndex = lx.charIndex + 1], "ILLEGAL")

(***************************************************************************)
(* Evaluator.  Objects live in a heap and an Object is a heap address, so  *)
(* that pointer identity (the singletons, grimoire identity, shared        *)
(* arrays) is what it is in the Go code.  Environments are numbered and    *)
(* refer to their outer environment by number.  The trace records, for     *)
(* every AST node that carries a position, the Object its evaluation       *)
(* returned, in the order the evaluations finished.                        *)
(***************************************************************************)
Nil == 0            \* Go nil
objectNONE == 1     \* object.NONE
NONE == 2           \* evaluator.NONE
TrueObj == 3        \* evaluator.TRUE
FalseObj == 4       \* evaluator.FALSE
STOP == 5           \* object.STOP
SKIP == 6           \* object.SKIP

InitHeap ==
    << [t |-> "NONE"], [t |-> "NONE"],
       [t |-> "BOOLEAN", Value |-> TRUE], [t |-> "BOOLEAN", Value |-> FALSE],
       [t |-> "STOP"], [t |-> "SKIP"] >>

\* object.NewEnvironment: the global environment of a session
NewEnvironment == [store |-> <<>>, outer |-> 0]

GlobalEnv == 1

\* The process-wide state of the evaluator next to the objects: importedFiles
\* (imported), ctx.callStack (callStack), the number of evalCallExpression
\* frames on the stack of the process (depth), whether the stack was
\* exhausted (fatal), and, for observation, the paths handed to os.ReadFile
\* in order (reads).
NewStore ==
    [heap |-> InitHeap, envs |-> <<NewEnvironment>>, trace |-> <<>>,
     imported |-> {}, callStack |-> <<>>, reads |-> <<>>,
     depth |-> 0, fatal |-> FALSE]

\* The result of an evaluation: the Object returned and the state afterwards.
Ret(o, st) == [o |-> o, st |-> st]

\* &object.X{...}: a new heap cell
Alloc(st, obj) ==
    Ret(Len(st.heap) + 1, [st EXCEPT !.heap = Append(st.heap, obj)])

\* Object.Type(); "nil" stands for a Go nil, which has no Type
Type(st, o) == IF o = Nil THEN "nil" ELSE st.heap[o].t

\* object.NewEnclosedEnvironment: <<number of the new environment, state>>
NewEnclosedEnvironment(st, outer) ==
    [env |-> Len(st.envs) + 1,
     st |-> [st EXCEPT !.envs = Append(st.envs, [store |-> <<>>, outer |-> outer])]]

\* Environment.Get: walks outward until a binding is found
RECURSIVE Get(_, _, _)
Get(st, env, name) ==
    IF name \in DOMAIN st.envs[env].store
    THEN [obj |-> st.envs[env].store[name], ok |-> TRUE]
    ELSE IF st.envs[env].outer # 0 THEN Get(st, st.envs[env].outer, name)
    ELSE [obj |-> Nil, ok |-> FALSE]

\* Environment.Set writing the outer environment's store when there is one
Set_intoOuter(st, env, name, val) ==
    LET target == IF st.envs[env].outer # 0 THEN st.envs[env].outer ELSE env
    IN  [st EXCEPT !.envs[target].store = (name :> val) @@ @]

\* Environment.Set: writes this environment's own store
Set(st, env, name, val) ==
    [st EXCEPT !.envs[env].store = (name :> val) @@ @]

\* token.Position{}
NoPosition == [File |-> "", Line |-> 0, Column |-> 0]

\* object.NewError is called without a position; the frames of ctx.callStack
\* are added as the stack trace
newError(st, message) ==
    Alloc(st, [t |-> "ERROR", ErrorKind |-> "RuntimeError", Message |-> message,
               Position |-> NoPosition, StackTrace |-> st.callStack])

isError(st, obj) ==
    IF obj = Nil THEN FALSE
    ELSE Type(st, obj) = "ERROR" \/ Type(st, obj) = "CUSTOM_ERROR"

isTruthy(st, obj) ==
    LET x == st.heap[obj] IN
    CASE x.t = "BOOLEAN" -> x.Value
      [] x.t = "STRING" -> x.Value # ""
      [] x.t = "ARRAY" -> Len(x.Elements) > 0
      [] x.t = "TUPLE" -> Len(x.Elements) > 0
      [] x.t = "NONE" -> FALSE
      [] OTHER -> TRUE

nativeBoolToBooleanObject(input) == IF input THEN TrueObj ELSE FalseObj

unwrapReturnValue(st, obj) ==
    IF obj # Nil /\ Type(st, obj) = "RETURN_VALUE" THEN st.heap[obj].Value ELSE obj

\* The sentinels that end a block: ReturnValue, Error, CustomError, Stop, Skip
IsSignal(st, obj) ==
    Type(st, obj) \in {"RETURN_VALUE", "ERROR", "CUSTOM_ERROR", "STOP", "SKIP"}

evalIntegerInfixExpression(st, operator, left, right) ==
    LET leftVal == st.heap[left].Value
        rightVal == st.heap[right].Value
        int(v) == Alloc(st, [t |-> "INTEGER", Value |-> v])
        bool(b) == Ret(nativeBoolToBooleanObject(b), st)
    IN  CASE operator = "+" -> int(leftVal + rightVal)
          [] operator = "-" -> int(leftVal - rightVal)
          [] operator = "*" -> int(leftVal * rightVal)
          [] operator = "<" -> bool(leftVal < rightVal)
          [] operator = ">" -> bool(leftVal > rightVal)
          [] operator = "==" -> bool(leftVal = rightVal)
          [] operator = "!=" -> bool(leftVal # rightVal)
          [] operator = ">=" -> bool(leftVal >= rightVal)
          [] operator = "<=" -> bool(leftVal <= rightVal)
          [] OTHER -> newError(st, "unknown operator")

evalBooleanInfixExpression(st, operator, left, right) ==
    LET leftVal == st.heap[left].Value
        rightVal == st.heap[right].Value
    IN  CASE operator = "==" -> Ret(nativeBoolToBooleanObject(leftVal = rightVal), st)
          [] operator = "!=" -> Ret(nativeBoolToBooleanObject(leftVal # rightVal), st)
          [] OTHER -> newError(st, "unknown operator")

evalStringInfixExpression(st, operator, left, right) ==
    IF operator # "+" THEN newError(st, "unknown operator")
    ELSE Alloc(st, [t |-> "STRING",
                    Value |-> st.heap[left].Value \o st.heap[right].Value])

evalArrayInfixExpression(st, operator, left, right) ==
    IF operator # "+" THEN newError(st, "unknown operator")
    ELSE Alloc(st, [t |-> "ARRAY",
                    Elements |-> st.heap[left].Elements \o st.heap[right].Elements])

evalInfixExpression(st, operator, left, right) ==
    LET lt == Type(st, left)
        rt == Type(st, right)
    IN  CASE lt = "INTEGER" /\ rt = "INTEGER" ->
                evalIntegerInfixExpression(st, operator, left, right)
          [] lt = "BOOLEAN" /\ rt = "BOOLEAN" ->
                evalBooleanInfixExpression(st, operator, left, right)
          [] lt = "STRING" /\ rt = "STRING" ->
                evalStringInfixExpression(st, operator, left, right)
          [] lt = "ARRAY" /\ rt = "ARRAY" ->
                evalArrayInfixExpression(st, operator, left, right)
          [] OTHER ->
                IF left = objectNONE /\ right = objectNONE
                THEN Ret(nativeBoolToBooleanObject(operator = "=="), st)
                ELSE IF (left = objectNONE \/ right = objectNONE)
                        /\ operator \in {"==", "!="}
                THEN Ret(nativeBoolToBooleanObject(operator = "!="), st)
                ELSE IF left # objectNONE /\ right # objectNONE /\ lt # rt
                THEN newError(st, "type mismatch")
                ELSE newError(st, "unknown operator or type mismatch")

evalTupleIndexExpression(st, tuple, index) ==
    LET idx == st.heap[index].Value
        elems == st.heap[tuple].Elements
    IN  IF idx < 0 \/ idx >= Len(elems) THEN NONE ELSE elems[idx + 1]

evalArrayIndexExpression(st, array, index) ==
    LET elems == st.heap[array].Elements
        length == Len(elems)
        maxIndex == length - 1
        idx0 == st.heap[index].Value
        idx == IF idx0 < 0 THEN length + idx0 ELSE idx0
    IN  IF idx < 0 \/ idx > maxIndex THEN NONE ELSE elems[idx + 1]

evalIndexExpression(st, left, index) ==
    CASE Type(st, left) = "TUPLE" -> Ret(evalTupleIndexExpression(st, left, index), st)
      [] Type(st, left) = "ARRAY" ->
            IF Type(st, index) = "INTEGER"
            THEN Ret(evalArrayIndexExpression(st, left, index), st)
            ELSE newError(st, "array index must be INTEGER or RANGE")
      [] OTHER -> newError(st, "index operator not supported")

evalIdentifier(node, env, st) ==
    LET b == Get(st, env, node.Value) IN
    IF b.ok THEN Ret(b.obj, st)
    ELSE IF node.Value = "None" THEN Ret(objectNONE, st)
    ELSE newError(st, "identifier not found")

\* Prefix ++ and --: the Integer the name is bound to is changed in place,
\* bound again in env and returned.
evalPrefixIncrementDecrement(operator, node, env, st) ==
    IF node.Right.kind # "Identifier"
    THEN newError(st, "prefix operator requires an integer or identifier")
    ELSE
    LET b == Get(st, env, node.Right.Value) IN
    IF ~b.ok THEN newError(st, "undefined variable")
    ELSE IF Type(st, b.obj) # "INTEGER"
    THEN newError(st, "prefix operator requires an integer variable")
    ELSE
    LET delta == IF operator = "++" THEN 1 ELSE IF operator = "--" THEN -1 ELSE 0
        changed == [st EXCEPT !.heap[b.obj].Value = @ + delta]
    IN  Ret(b.obj, Set(changed, env, node.Right.Value, b.obj))

evalPostfixIncrementDecrement_returnsNew(operator, node, env, st) ==
    IF node.Left.kind # "Identifier"
    THEN newError(st, "postfix operator requires an integer or identifier")
    ELSE
    LET b == Get(st, env, node.Left.Value) IN
    IF ~b.ok THEN newError(st, "undefined variable")
    ELSE IF Type(st, b.obj) # "INTEGER"
    THEN newError(st, "postfix operator requires an integer variable")
    ELSE
    LET oldValue == st.heap[b.obj].Value
        newValue == IF operator = "++" THEN oldValue + 1
                    ELSE IF operator = "--" THEN oldValue - 1 ELSE 0
        newObj == Alloc(st, [t |-> "INTEGER", Value |-> newValue])
    IN  Alloc(Set(newObj.st, env, node.Left.Value, newObj.o),
              [t |-> "INTEGER", Value |-> newValue])

evalPostfixIncrementDecrement(operator, node, env, st) ==
    IF node.Left.kind # "Identifier"
    THEN newError(st, "postfix operator requires an integer or identifier")
    ELSE
    LET b == Get(st, env, node.Left.Value) IN
    IF ~b.ok THEN newError(st, "undefined variable")
    ELSE IF Type(st, b.obj) # "INTEGER"
    THEN newError(st, "postfix operator requires an integer variable")
    ELSE
    LET oldValue == st.heap[b.obj].Value
        newValue == IF operator = "++" THEN oldValue + 1
                    ELSE IF operator = "--" THEN oldValue - 1 ELSE 0
        newObj == Alloc(st, [t |-> "INTEGER", Value |-> newValue])
    IN  Alloc(Set(newObj.st, env, node.Left.Value, newObj.o),
              [t |-> "INTEGER", Value |-> oldValue])

\* Go's integer division, which truncates toward zero
Quotient(a, b) ==
    LET q == (IF a < 0 THEN -a ELSE a) \div (IF b < 0 THEN -b ELSE b)
    IN  IF (a < 0) = (b < 0) THEN q ELSE -q

applyCompoundOperator(st, operator, leftVal, rightVal) ==
    IF Type(st, leftVal) # "INTEGER"
    THEN newError(st, "unsupported type for compound assignment")
    ELSE IF Type(st, rightVal) # "INTEGER"
    THEN newError(st, "type mismatch: expected INTEGER")
    ELSE LET lv == st.heap[leftVal].Value
             rv == st.heap[rightVal].Value
         IN  CASE operator = "+=" -> Alloc(st, [t |-> "INTEGER", Value |-> lv + rv])
               [] operator = "-=" -> Alloc(st, [t |-> "INTEGER", Value |-> lv - rv])
               [] operator = "*=" -> Alloc(st, [t |-> "INTEGER", Value |-> lv * rv])
               [] operator = "/=" ->
                    IF rv = 0 THEN newError(st, "division by zero")
                    ELSE Alloc(st, [t |-> "INTEGER", Value |-> Quotient(lv, rv)])
               [] OTHER -> newError(st, "unknown operator")

\* evalCompoundAssignment after Eval(node.Right, env) returned rightVal in st
compoundAssign(node, env, st, rightVal) ==
    IF isError(st, rightVal) THEN Ret(rightVal, st)
    ELSE IF node.Left.kind # "Identifier"
    THEN newError(st, "invalid assignment target")
    ELSE LET currVal == Get(st, env, node.Left.Value) IN
         IF ~currVal.ok THEN newError(st, "undefined variable")
         ELSE LET newVal == applyCompoundOperator(st, node.Operator, currVal.obj, rightVal)
              IN  IF isError(newVal.st, newVal.o) THEN newVal
                  ELSE Ret(newVal.o, Set(newVal.st, env, node.Left.Value, newVal.o))

(***************************************************************************)
(* AST nodes are records with a kind; an absent child (a Go nil) is NoNode.*)
(***************************************************************************)
NoNode == [kind |-> "nil"]

IsNode(n) == n.kind # "nil"

RECURSIVE Eval(_, _, _)
RECURSIVE EvalNode(_, _, _)
RECURSIVE evalExpressionsFrom(_, _, _, _, _)
RECURSIVE programLoop(_, _, _, _, _)
RECURSIVE blockLoop(_, _, _, _, _)
RECURSIVE otherwiseLoop(_, _, _, _)
RECURSIVE whileBody(_, _, _, _)
RECURSIVE evalWhileStatement(_, _, _)
RECURSIVE forBody(_, _, _, _)
RECURSIVE forBindFrom(_, _, _, _, _)
RECURSIVE forLoop(_, _, _, _, _, _)
RECURSIVE ensnareLoop(_, _, _, _, _)
RECURSIVE bindParameters(_, _, _, _, _, _)
RECURSIVE evalCallExpression(_, _, _, _)
RECURSIVE assignToTarget(_, _, _, _)
RECURSIVE assignTargets(_, _, _, _, _)
RECURSIVE evalTupleUnpacking(_, _, _, _)

\* evalExpressions: the Objects of exps in order, or the one error alone
evalExpressionsFrom(exps, i, env, st, acc) ==
    IF i > Len(exps) THEN [objs |-> acc, st |-> st]
    ELSE LET evaluated == Eval(exps[i], env, st) IN
         IF isError(evaluated.st, evaluated.o)
         THEN [objs |-> <<evaluated.o>>, st |-> evaluated.st]
         ELSE evalExpressionsFrom(exps, i + 1, env, evaluated.st,
                                  Append(acc, evaluated.o))

evalExpressions(exps, env, st) == evalExpressionsFrom(exps, 1, env, st, <<>>)

evalBangOperatorExpression(right) ==
    CASE right = TrueObj -> FalseObj
      [] right = FalseObj -> TrueObj
      [] right = NONE -> TrueObj
      [] OTHER -> FalseObj

evalMinusPrefixOperatorExpression(st, right) ==
    IF Type(st, right) # "INTEGER" THEN newError(st, "unknown operator: -")
    ELSE Alloc(st, [t |-> "INTEGER", Value |-> 0 - st.heap[right].Value])

\* The operand is evaluated here a second time (Eval evaluated it before
\* the call).
evalPrefixExpression(operator, node, env, st) ==
    LET right == Eval(node.Right, env, st) IN
    CASE operator = "!" -> Ret(evalBangOperatorExpression(right.o), right.st)
      [] operator = "not" ->
            IF isError(right.st, right.o) THEN right
            ELSE Ret(evalBangOperatorExpression(right.o), right.st)
      [] operator = "~" ->
            IF isError(right.st, right.o) THEN right
            ELSE IF Type(right.st, right.o) # "INTEGER"
            THEN newError(right.st, "unsupported operand type for ~")
            ELSE Alloc(right.st, [t |-> "INTEGER",
                                  Value |-> 0 - right.st.heap[right.o].Value - 1])
      [] operator = "-" -> evalMinusPrefixOperatorExpression(right.st, right.o)
      [] OTHER -> newError(right.st, "unknown operator")

\* ArrayLiteral and TupleLiteral
evalSequenceLiteral(node, type, env, st) ==
    LET elements == evalExpressions(node.Elements, env, st) IN
    IF Len(elements.objs) = 1 /\ isError(elements.st, elements.objs[1])
    THEN Ret(elements.objs[1], elements.st)
    ELSE Alloc(elements.st, [t |-> type, Elements |-> elements.objs])

evalTupleLiteral(node, env, st) == evalSequenceLiteral(node, "TUPLE", env, st)

\* The switch on result in evalProgram's loop: <<Object, state, whether it returns>>
stepResult(r) ==
    IF Type(r.st, r.o) = "RETURN_VALUE"
    THEN [o |-> r.st.heap[r.o].Value, st |-> r.st, returns |-> TRUE]
    ELSE [o |-> r.o, st |-> r.st, returns |-> isError(r.st, r.o)]

\* One iteration of evalProgram's loop
programStep(statement, env, st) == stepResult(Eval(statement, env, st))

programLoop(statements, i, env, st, result) ==
    IF i > Len(statements) THEN Ret(result, st)
    ELSE LET r == programStep(statements[i], env, st) IN
         IF r.returns THEN Ret(r.o, r.st)
         ELSE programLoop(statements, i + 1, env, r.st, r.o)

evalProgram(program, env, st) == programLoop(program.Statements, 1, env, st, Nil)

blockLoop(statements, i, env, st, result) ==
    IF i > Len(statements) THEN Ret(result, st)
    ELSE LET r == Eval(statements[i], env, st) IN
         IF r.o # Nil /\ IsSignal(r.st, r.o) THEN r
         ELSE blockLoop(statements, i + 1, env, r.st, r.o)

evalBlockStatement(block, env, st) == blockLoop(block.Statements, 1, env, st, Nil)

otherwiseLoop(branches, i, env, st) ==
    IF i > Len(branches) THEN Ret(Nil, st)
    ELSE LET condition == Eval(branches[i].Condition, env, st) IN
         IF isError(condition.st, condition.o) THEN condition
         ELSE IF isTruthy(condition.st, condition.o)
         THEN Eval(branches[i].Consequence, env, condition.st)
         ELSE otherwiseLoop(branches, i + 1, env, condition.st)

\* otherwiseLoop returns Nil when no otherwise branch was taken
evalIfExpression(ie, env, st) ==
    LET condition == Eval(ie.Condition, env, st) IN
    IF isTruthy(condition.st, condition.o)
    THEN Eval(ie.Consequence, env, condition.st)
    ELSE LET branch == otherwiseLoop(ie.OtherwiseBranches, 1, env, condition.st) IN
         IF branch.o # Nil THEN branch
         ELSE IF IsNode(ie.Alternative) THEN Eval(ie.Alternative, env, branch.st)
         ELSE Ret(NONE, branch.st)

\* The loop over Body.Statements[0 .. n-2] of evalWhileStatement: the
\* control signal that ended it (Nil if none) and the state afterwards.
whileBody(node, i, env, st) ==
    IF i > Len(node.Body.Statements) - 1 THEN Ret(Nil, st)
    ELSE LET res == Eval(node.Body.Statements[i], env, st) IN
         IF IsSignal(res.st, res.o) THEN res
         ELSE whileBody(node, i + 1, env, res.st)

\* The state after Eval(node.Body.Statements[n-1], env), whose result is dropped
whileLast(node, env, st) ==
    LET n == Len(node.Body.Statements) IN
    IF n > 0 THEN Eval(node.Body.Statements[n], env, st).st ELSE st

evalWhileStatement(node, env, st) ==
    LET condition == Eval(node.Condition, env, st) IN
    IF isError(condition.st, condition.o) THEN condition
    ELSE IF ~isTruthy(condition.st, condition.o) THEN Ret(NONE, condition.st)
    ELSE
    LET signal == whileBody(node, 1, env, condition.st)
        controlSignal == signal.o
        after == whileLast(node, env, signal.st)
    IN  IF controlSignal # Nil /\ Type(after, controlSignal) = "STOP"
        THEN Ret(NONE, after)
        ELSE IF controlSignal # Nil /\ Type(after, controlSignal) # "SKIP"
        THEN Ret(controlSignal, after)
        ELSE evalWhileStatement(node, env, after)

\* The statements of a for body for one element: the signal that ended the
\* pass (Nil if none), the last result, and the state.
forBody(fs, i, env, acc) ==
    IF i > Len(fs.Body.Statements) THEN acc
    ELSE LET r == Eval(fs.Body.Statements[i], env, acc.st) IN
         IF Type(r.st, r.o) \in {"STOP", "SKIP", "RETURN_VALUE", "ERROR", "CUSTOM_ERROR"}
         THEN [signal |-> r.o, o |-> r.o, st |-> r.st]
         ELSE forBody(fs, i + 1, env, [signal |-> Nil, o |-> r.o, st |-> r.st])

\* Binding the loop variable(s) to elem: the state, and an error Object or Nil
forBindFrom(targets, items, i, env, st) ==
    IF i > Len(targets) THEN [err |-> Nil, st |-> st]
    ELSE IF targets[i].kind # "Identifier"
    THEN LET e == newError(st, "invalid assignment target in for loop") IN
         [err |-> e.o, st |-> e.st]
    ELSE forBindFrom(targets, items, i + 1, env,
                     Set(st, env, targets[i].Value, items[i]))

forBind(fs, elem, env, st) ==
    IF fs.Variable.kind = "Identifier"
    THEN [err |-> Nil, st |-> Set(st, env, fs.Variable.Value, elem)]
    ELSE IF fs.Variable.kind = "TupleLiteral"
    THEN IF Type(st, elem) \notin {"TUPLE", "ARRAY"}
         THEN LET e == newError(st, "cannot unpack non-iterable element") IN
              [err |-> e.o, st |-> e.st]
         ELSE IF Len(fs.Variable.Elements) # Len(st.heap[elem].Elements)
         THEN LET e == newError(st, "unpacking mismatch") IN
              [err |-> e.o, st |-> e.st]
         ELSE forBindFrom(fs.Variable.Elements, st.heap[elem].Elements, 1, env, st)
    ELSE [err |-> Nil, st |-> Set(st, env, fs.Variable.String, elem)]

\* elems is the slice taken by range at loop entry
forLoop(fs, elems, k, env, st, result) ==
    IF k > Len(elems) THEN [o |-> result, st |-> st, returns |-> FALSE]
    ELSE LET bound == forBind(fs, elems[k], env, st) IN
         IF bound.err # Nil THEN [o |-> bound.err, st |-> bound.st, returns |-> TRUE]
         ELSE LET pass == forBody(fs, 1, env, [signal |-> Nil, o |-> result, st |-> bound.st]) IN
              IF pass.signal # Nil /\ Type(pass.st, pass.signal) = "STOP"
              THEN [o |-> NONE, st |-> pass.st, returns |-> TRUE]
              ELSE IF pass.signal # Nil /\ Type(pass.st, pass.signal) # "SKIP"
              THEN [o |-> pass.signal, st |-> pass.st, returns |-> TRUE]
              ELSE forLoop(fs, elems, k + 1, env, pass.st, pass.o)

evalForStatement(fs, env, st) ==
    LET iterable == Eval(fs.Iterable, env, st) IN
    IF isError(iterable.st, iterable.o) THEN iterable
    ELSE IF Type(iterable.st, iterable.o) # "ARRAY"
    THEN newError(iterable.st, "unsupported iterable type")
    ELSE LET loop == forLoop(fs, iterable.st.heap[iterable.o].Elements, 1, env,
                             iterable.st, NONE) IN
         IF loop.returns THEN Ret(loop.o, loop.st)
         ELSE IF IsNode(fs.Alternative) THEN Eval(fs.Alternative, env, loop.st)
         ELSE Ret(loop.o, loop.st)

evalRaiseStatement(node, env, st) ==
    LET errObj == Eval(node.Error, env, st)
        s1 == errObj.st
    IN  IF isError(s1, errObj.o) THEN errObj
        ELSE IF Type(s1, errObj.o) = "INSTANCE"
        THEN LET instance == s1.heap[errObj.o]
                 msg == Get(s1, instance.Env, "message")
                 message == IF msg.ok /\ Type(s1, msg.obj) = "STRING"
                            THEN s1.heap[msg.obj].Value ELSE ""
             IN  Alloc(s1, [t |-> "CUSTOM_ERROR",
                            Name |-> s1.heap[instance.Grimoire].Name,
                            Message |-> message,
                            ErrorType |-> instance.Grimoire,
                            Instance |-> errObj.o])
        ELSE IF Type(s1, errObj.o) = "STRING"
        THEN Alloc(s1, [t |-> "CUSTOM_ERROR",
                        Name |-> "Error",
                        Message |-> s1.heap[errObj.o].Value,
                        ErrorType |-> Nil,
                        Instance |-> Nil])
        ELSE newError(s1, "cannot raise non-error object")

\* Whether an ensnare guard's value catches customErr: a Grimoire by
\* identity with the error's ErrorType, a String by the error's Name.
ensnareMatches_byName(st, customErr, condition) ==
    \/ /\ Type(st, condition) = "GRIMOIRE"
       /\ st.heap[customErr].Name = st.heap[condition].Name
    \/ /\ Type(st, condition) = "STRING"
       /\ st.heap[customErr].Name = st.heap[condition].Value

ensnareMatches(st, customErr, condition) ==
    \/ /\ Type(st, condition) = "GRIMOIRE"
       /\ st.heap[customErr].ErrorType = condition
    \/ /\ Type(st, condition) = "STRING"
       /\ st.heap[customErr].Name = st.heap[condition].Value

\* The loop over node.EnsnareClauses: result (Nil if it was not set)
ensnareLoop(node, i, env, st, customErr) ==
    IF i > Len(node.EnsnareClauses) THEN Ret(Nil, st)
    ELSE LET ensnare == node.EnsnareClauses[i]
             condition == Eval(ensnare.Condition, env, st)
         IN  IF isError(condition.st, condition.o) THEN condition
             ELSE IF ensnareMatches(condition.st, customErr, condition.o)
             THEN Eval(ensnare.Consequence, env, condition.st)
             ELSE ensnareLoop(node, i + 1, env, condition.st, customErr)

\* Whether the ensnare clauses are consulted for tryResult
ensnareApplies(st, tryResult) ==
    isError(st, tryResult) /\ Type(st, tryResult) = "CUSTOM_ERROR"

\* The end of evalAttemptStatement: the resolve block, then the result
attemptResolve_onlyOnSuccess(node, env, st, result) ==
    IF IsNode(node.ResolveBlock) /\ ~isError(st, result)
    THEN LET resolveResult == Eval(node.ResolveBlock, env, st) IN
         IF isError(resolveResult.st, resolveResult.o) THEN resolveResult
         ELSE Ret(result, resolveResult.st)
    ELSE Ret(result, st)

attemptResolve(node, env, st, result) ==
    IF IsNode(node.ResolveBlock)
    THEN LET resolveResult == Eval(node.ResolveBlock, env, st) IN
         IF isError(resolveResult.st, resolveResult.o) THEN resolveResult
         ELSE Ret(result, resolveResult.st)
    ELSE Ret(result, st)

evalAttemptStatement(node, env, st) ==
    LET tryResult == Eval(node.TryBlock, env, st)
        caught == IF ensnareApplies(tryResult.st, tryResult.o)
                  THEN ensnareLoop(node, 1, env, tryResult.st, tryResult.o)
                  ELSE Ret(Nil, tryResult.st)
        result == IF caught.o = Nil THEN tryResult.o ELSE caught.o
    IN  attemptResolve(node, env, caught.st, result)

\* strings.HasPrefix(name, prefix) for the method names of the programs
PrivateNames == {"__secret"}

ProtectedNames == {"_helper"}

HasPrefix(name, prefix) ==
    CASE prefix = "__" -> name \in PrivateNames
      [] prefix = "_" -> name \in PrivateNames \cup ProtectedNames
      [] OTHER -> FALSE

RECURSIVE defineMethods(_, _, _, _, _)
defineMethods(methodNodes, i, env, st, methods) ==
    IF i > Len(methodNodes) THEN [methods |-> methods, st |-> st]
    ELSE LET method == methodNodes[i]
             fn == Alloc(st, [t |-> "FUNCTION",
                              Parameters |-> method.Parameters,
                              Body |-> method.Body,
                              Env |-> env,
                              IsPrivate |-> HasPrefix(method.Name, "__"),
                              IsProtected |-> ~HasPrefix(method.Name, "__")
                                              /\ HasPrefix(method.Name, "_"),
                              IsAbstract |-> method.IsArcaneSpell])
         IN  defineMethods(methodNodes, i + 1, env, fn.st,
                           (method.Name :> fn.o) @@ methods)

evalGrimoireDefinition(node, env, st) ==
    LET parentObj == IF IsNode(node.Inherits) THEN Get(st, env, node.Inherits.Value)
                     ELSE [obj |-> Nil, ok |-> TRUE]
    IN  IF ~parentObj.ok THEN newError(st, "parent grimoire not found")
        ELSE IF parentObj.obj # Nil /\ Type(st, parentObj.obj) # "GRIMOIRE"
        THEN newError(st, "is not a grimoire")
        ELSE
        LET parentGrimoire == parentObj.obj
            inherited == IF parentGrimoire # Nil THEN st.heap[parentGrimoire].Methods
                         ELSE <<>>
            defined == defineMethods(node.Methods, 1, env, st, inherited)
            methods == defined.methods
            s1 == defined.st
            missing == IF parentGrimoire = Nil THEN {}
                       ELSE {name \in DOMAIN inherited :
                               /\ s1.heap[inherited[name]].IsAbstract
                               /\ name \notin DOMAIN methods}
            initFn == IF IsNode(node.InitMethod)
                      THEN Alloc(s1, [t |-> "FUNCTION",
                                      Parameters |-> node.InitMethod.Parameters,
                                      Body |-> node.InitMethod.Body,
                                      Env |-> env,
                                      IsPrivate |-> FALSE,
                                      IsProtected |-> FALSE,
                                      IsAbstract |-> FALSE])
                      ELSE Ret(Nil, s1)
            grimoire == Alloc(initFn.st, [t |-> "GRIMOIRE",
                                          Name |-> node.Name,
                                          Methods |-> methods,
                                          InitMethod |-> initFn.o,
                                          Env |-> env,
                                          Inherits |-> parentGrimoire,
                                          IsArcane |-> node.IsArcane])
        IN  IF missing # {} THEN newError(s1, "must implement abstract method")
            ELSE Ret(grimoire.o, Set(grimoire.st, env, node.Name, grimoire.o))

\* The loop over node.Methods of evalArcaneGrimoire
RECURSIVE arcaneMethods(_, _, _, _, _)
arcaneMethods(methodNodes, i, env, st, methods) ==
    IF i > Len(methodNodes) THEN [methods |-> methods, st |-> st]
    ELSE LET method == methodNodes[i]
             fn == Alloc(st, [t |-> "FUNCTION",
                              Parameters |-> method.Parameters,
                              Body |-> method.Body,
                              Env |-> env,
                              IsPrivate |-> FALSE,
                              IsProtected |-> FALSE,
                              IsAbstract |-> FALSE])
         IN  arcaneMethods(methodNodes, i + 1, env, fn.st,
                           (method.Name :> fn.o) @@ methods)

bindGrimoire(node, env, grimoire) ==
    Ret(grimoire.o, Set(grimoire.st, env, node.Name, grimoire.o))

arcaneGrimoire(node, env, defined) ==
    bindGrimoire(node, env,
                 Alloc(defined.st, [t |-> "GRIMOIRE",
                                    Name |-> node.Name,
                                    Methods |-> defined.methods,
                                    InitMethod |-> Nil,
                                    Env |-> env,
                                    Inherits |-> Nil,
                                    IsArcane |-> TRUE]))

evalArcaneGrimoire(node, env, st) ==
    arcaneGrimoire(node, env, arcaneMethods(node.Methods, 1, env, st, <<>>))

\* os.ReadFile and the parser: what a path holds.  m defines a grimoire and
\* a variable, n imports m under an alias, bad has parse errors, and any
\* other path does not exist.
ModuleM ==
    [kind |-> "Program",
     Statements |->
        <<[kind |-> "GrimoireDefinition", Name |-> "Spell", Inherits |-> NoNode,
           InitMethod |-> NoNode, Methods |-> <<>>, IsArcane |-> FALSE,
           pos |-> <<"module", 0>>],
          [kind |-> "AssignStatement",
           Name |-> [kind |-> "Identifier", Value |-> "count"],
           Value |-> [kind |-> "IntegerLiteral", Value |-> 1]]>>]

ModuleN ==
    [kind |-> "Program",
     Statements |->
        <<[kind |-> "ImportStatement", FilePath |-> "m",
           Alias |-> [kind |-> "Identifier", Value |-> "inner"]]>>]

\* A statement that yields an Error (an unbound name) or a CustomError
\* (raise "oops")
FailingStatement(k) ==
    IF k = "Error"
    THEN [kind |-> "ExpressionStatement",
          Expression |-> [kind |-> "Identifier", Value |-> "undefinedName"],
          pos |-> <<"unwinding", 0>>]
    ELSE [kind |-> "RaiseStatement",
          Error |-> [kind |-> "StringLiteral", Value |-> "oops"],
          pos |-> <<"unwinding", 0>>]

\* A module whose body fails
ModuleFailing(k) == [kind |-> "Program", Statements |-> <<FailingStatement(k)>>]

ReadFile(filePath) ==
    CASE filePath = "m" -> [err |-> FALSE, errors |-> FALSE, program |-> ModuleM]
      [] filePath = "n" -> [err |-> FALSE, errors |-> FALSE, program |-> ModuleN]
      [] filePath = "bad" -> [err |-> FALSE, errors |-> TRUE, program |-> NoNode]
      [] filePath \in {"Error", "CustomError"} ->
            [err |-> FALSE, errors |-> FALSE, program |-> ModuleFailing(filePath)]
      [] OTHER -> [err |-> TRUE, errors |-> FALSE, program |-> NoNode]

\* The bindings of importEnv's own store whose value is a Grimoire
grimoireBindings(st, importEnv) ==
    LET own == st.envs[importEnv].store IN
    [name \in {n \in DOMAIN own : Type(st, own[n]) = "GRIMOIRE"} |-> own[name]]

\* The end of evalImportStatement, after Eval(program, importEnv)
bindImport(node, env, importEnv, namespace) ==
    Ret(objectNONE,
        IF IsNode(node.Alias)
        THEN Set(namespace.st, env, node.Alias.Value, namespace.o)
        ELSE [namespace.st EXCEPT !.envs[env].store =
                                    grimoireBindings(namespace.st, importEnv) @@ @])

importInto(node, env, program, new) ==
    bindImport(node, env, new.env,
               Alloc(Eval(program, new.env, new.st).st,
                     [t |-> "NAMESPACE", Env |-> new.env]))

\* evalImportStatement from os.ReadFile on; st has the path marked
importFile(node, env, st, file) ==
    IF file.err THEN newError(st, "could not import file")
    ELSE IF file.errors THEN newError(st, "parsing errors in imported file")
    ELSE importInto(node, env, file.program, NewEnclosedEnvironment(st, env))

evalImportStatement_readsAgain(node, env, st) ==
    importFile(node, env,
               [st EXCEPT !.imported = @ \cup {node.FilePath},
                          !.reads = Append(@, node.FilePath)],
               ReadFile(node.FilePath))

evalImportStatement(node, env, st) ==
    IF node.FilePath \in st.imported THEN Ret(objectNONE, st)
    ELSE importFile(node, env,
                    [st EXCEPT !.imported = @ \cup {node.FilePath},
                               !.reads = Append(@, node.FilePath)],
                    ReadFile(node.FilePath))

RECURSIVE getGlobalEnv(_, _)
getGlobalEnv(st, env) ==
    IF st.envs[env].outer # 0 THEN getGlobalEnv(st, st.envs[env].outer) ELSE env

\* The loop over fn.Parameters of extendFunctionEnv
bindParameters(fn, args, i, global, env, st) ==
    IF i > Len(fn.Parameters) THEN st
    ELSE LET param == fn.Parameters[i] IN
         IF i <= Len(args)
         THEN bindParameters(fn, args, i + 1, global, env,
                             Set(st, env, param.Name, args[i]))
         ELSE IF IsNode(param.DefaultValue)
         THEN IF param.DefaultValue.kind = "Identifier"
              THEN LET val == Get(st, global, param.DefaultValue.Value) IN
                   IF val.ok
                   THEN bindParameters(fn, args, i + 1, global, env,
                                       Set(st, env, param.Name, val.obj))
                   ELSE LET e == newError(st, "identifier not found") IN
                        bindParameters(fn, args, i + 1, global, env,
                                       Set(e.st, env, param.Name, e.o))
              ELSE LET defaultVal == Eval(param.DefaultValue, fn.Env, st) IN
                   bindParameters(fn, args, i + 1, global, env,
                                  Set(defaultVal.st, env, param.Name, defaultVal.o))
         ELSE bindParameters(fn, args, i + 1, global, env,
                             Set(st, env, param.Name, NONE))

\* extendFunctionEnv: the new environment and the state
extendFunctionEnv(fn, args, global, functionName, st) ==
    LET new == NewEnclosedEnvironment(st, fn.Env)
        name == Alloc(new.st, [t |-> "STRING", Value |-> functionName])
        named == Set(name.st, new.env, "__function_name", name.o)
    IN  [env |-> new.env, st |-> bindParameters(fn, args, 1, global, new.env, named)]

evalCallExpression(fnObj, args0, env, st) ==
    LET args == IF Len(args0) = 1 /\ Type(st, args0[1]) = "TUPLE"
                THEN st.heap[args0[1]].Elements ELSE args0
        fn == st.heap[fnObj]
    IN  CASE fn.t = "FUNCTION" ->
                LET extended == extendFunctionEnv(fn, args, getGlobalEnv(st, fn.Env),
                                                  "function", st)
                    evaluated == Eval(fn.Body, extended.env, extended.st)
                IN  Ret(unwrapReturnValue(evaluated.st, evaluated.o), evaluated.st)
          [] fn.t = "BOUND_METHOD" ->
                LET method == st.heap[fn.Method]
                    extended == extendFunctionEnv(method, args,
                                                  getGlobalEnv(st, method.Env),
                                                  "method", st)
                    withSelf == Set(extended.st, extended.env, "self", fn.Instance)
                IN  IF method.IsAbstract
                    THEN newError(withSelf, "Cannot call abstract method")
                    ELSE LET evaluated == Eval(method.Body, extended.env, withSelf) IN
                         Ret(unwrapReturnValue(evaluated.st, evaluated.o), evaluated.st)
          [] fn.t = "GRIMOIRE" ->
                IF fn.IsArcane THEN newError(st, "cannot instantiate arcane grimoire")
                ELSE
                LET new == NewEnclosedEnvironment(st, fn.Env)
                    instance == Alloc(new.st, [t |-> "INSTANCE", Grimoire |-> fnObj,
                                               Env |-> new.env])
                IN  IF fn.InitMethod # Nil
                    THEN LET initMethod == instance.st.heap[fn.InitMethod]
                             extended == extendFunctionEnv(initMethod, args,
                                             getGlobalEnv(instance.st, fn.Env),
                                             "init", instance.st)
                             withSelf == Set(extended.st, extended.env, "self", instance.o)
                         IN  Ret(instance.o,
                                 Eval(initMethod.Body, extended.env, withSelf).st)
                    ELSE instance
          [] OTHER -> newError(st, "not a function")

sameClass(st, env, target) ==
    LET callerSelf == Get(st, env, "self") IN
    /\ callerSelf.ok
    /\ Type(st, callerSelf.obj) = "INSTANCE"
    /\ st.heap[callerSelf.obj].Grimoire = target

RECURSIVE inheritsFrom(_, _, _)
inheritsFrom(st, grim, target) ==
    IF grim = Nil THEN FALSE
    ELSE IF grim = target THEN TRUE
    ELSE inheritsFrom(st, st.heap[grim].Inherits, target)

sameOrSubclass(st, env, target) ==
    LET callerSelf == Get(st, env, "self") IN
    /\ callerSelf.ok
    /\ Type(st, callerSelf.obj) = "INSTANCE"
    /\ inheritsFrom(st, st.heap[callerSelf.obj].Grimoire, target)

evalDotExpression(node, env, st) ==
    LET leftObj == Eval(node.Left, env, st)
        s1 == leftObj.st
    IN  IF isError(s1, leftObj.o) THEN leftObj
        ELSE IF node.Left.kind = "Identifier" /\ node.Left.Value = "super"
        THEN LET instance == Get(s1, env, "self") IN
             IF ~instance.ok \/ instance.obj = Nil
             THEN newError(s1, "'super' can only be used in an instance method")
             ELSE IF Type(s1, instance.obj) # "INSTANCE"
             THEN newError(s1, "'super' must be used in an instance of a grimoire")
             ELSE LET grim == s1.heap[s1.heap[instance.obj].Grimoire] IN
                  IF grim.Inherits = Nil
                  THEN newError(s1, "no parent class found for 'super'")
                  ELSE IF node.Right \notin DOMAIN s1.heap[grim.Inherits].Methods
                  THEN newError(s1, "no method found in parent class")
                  ELSE Alloc(s1, [t |-> "BOUND_METHOD", Instance |-> instance.obj,
                                  Method |-> s1.heap[grim.Inherits].Methods[node.Right]])
        ELSE IF Type(s1, leftObj.o) # "INSTANCE"
        THEN newError(s1, "type error: not an instance")
        ELSE LET instance == s1.heap[leftObj.o]
                 field == Get(s1, instance.Env, node.Right)
                 methods == s1.heap[instance.Grimoire].Methods
             IN  IF field.ok THEN Ret(field.obj, s1)
                 ELSE IF node.Right \notin DOMAIN methods
                 THEN newError(s1, "undefined property or method")
                 ELSE LET method == s1.heap[methods[node.Right]] IN
                      IF method.IsPrivate /\ ~sameClass(s1, env, instance.Grimoire)
                      THEN newError(s1, "private method not accessible outside its defining class")
                      ELSE IF method.IsProtected
                              /\ ~sameOrSubclass(s1, env, instance.Grimoire)
                      THEN newError(s1, "protected method not accessible here")
                      ELSE Alloc(s1, [t |-> "BOUND_METHOD", Instance |-> leftObj.o,
                                      Method |-> methods[node.Right]])

\* tempValues[i]: copy(tempValues, values) is taken from the slice `values`
\* (the Elements of the Object at address values) in the state at entry.
tempValue_noCopy(entry, now, values, i) == now.heap[values].Elements[i]

tempValue(entry, now, values, i) == entry.heap[values].Elements[i]

\* arrayObj.Elements[idx] = value, with negative indexing and the range check
assignElement(st, arrayObj, idxObj, value) ==
    LET length == Len(st.heap[arrayObj].Elements)
        idx0 == st.heap[idxObj].Value
        idx == IF idx0 < 0 THEN length + idx0 ELSE idx0
    IN  IF idx < 0 \/ idx >= length THEN newError(st, "array index out of range")
        ELSE Ret(value, [st EXCEPT !.heap[arrayObj].Elements[idx + 1] = value])

\* The obj.elements[i] target: the Array bound to "elements" in the instance
assignInstanceElement(dotObj, index, value, env, st) ==
    LET instance == Eval(dotObj.Left, env, st)
        s1 == instance.st
    IN  IF isError(s1, instance.o) THEN instance
        ELSE IF Type(s1, instance.o) # "INSTANCE"
        THEN newError(s1, "invalid assignment target: not an instance")
        ELSE LET elements == Get(s1, s1.heap[instance.o].Env, "elements") IN
             IF ~elements.ok THEN newError(s1, "property not found: elements")
             ELSE IF Type(s1, elements.obj) # "ARRAY"
             THEN newError(s1, "elements is not an array")
             ELSE LET idxObj == Eval(index, env, s1)
                      s2 == idxObj.st
                  IN  IF isError(s2, idxObj.o) THEN idxObj
                      ELSE IF Type(s2, idxObj.o) # "INTEGER"
                      THEN newError(s2, "array index must be INTEGER")
                      ELSE assignElement(s2, elements.obj, idxObj.o, value)

assignToTarget(target, value, env, st) ==
    CASE target.kind = "Identifier" ->
            Ret(value, Set(st, env, target.Value, value))
      [] target.kind = "IndexExpression" ->
            LET leftObj == Eval(target.Left, env, st)
                s1 == leftObj.st
            IN  IF isError(s1, leftObj.o) THEN leftObj
                ELSE IF target.Left.kind = "DotExpression"
                        /\ target.Left.Right = "elements"
                THEN assignInstanceElement(target.Left, target.Index, value, env, s1)
                ELSE LET idxObj == Eval(target.Index, env, s1)
                         s2 == idxObj.st
                     IN  IF isError(s2, idxObj.o) THEN idxObj
                         ELSE IF Type(s2, leftObj.o) = "ARRAY"
                                 /\ Type(s2, idxObj.o) = "INTEGER"
                         THEN assignElement(s2, leftObj.o, idxObj.o, value)
                         ELSE newError(s2, "invalid assignment target in tuple unpacking")
      [] target.kind = "DotExpression" ->
            LET leftObj == Eval(target.Left, env, st)
                s1 == leftObj.st
            IN  IF isError(s1, leftObj.o) THEN leftObj
                ELSE IF Type(s1, leftObj.o) # "INSTANCE"
                THEN newError(s1, "invalid assignment target in tuple unpacking")
                ELSE Ret(value, Set(s1, s1.heap[leftObj.o].Env, target.Right, value))
      [] target.kind \in {"TupleAssignment", "TupleLiteral"} ->
            IF Type(st, value) \in {"TUPLE", "ARRAY"}
            THEN evalTupleUnpacking(target.Elements, value, env, st)
            ELSE newError(st, "cannot unpack non-iterable into tuple")
      [] OTHER -> newError(st, "invalid assignment target in tuple unpacking")

\* The loop over targets: an error Object, or Nil when every target is assigned
assignTargets(targets, values, i, env, acc) ==
    IF i > Len(targets) THEN Ret(Nil, acc.now)
    ELSE LET result == assignToTarget(targets[i],
                                      tempValue(acc.entry, acc.now, values, i),
                                      env, acc.now)
         IN  IF isError(result.st, result.o) THEN result
             ELSE assignTargets(targets, values, i + 1, env,
                                [entry |-> acc.entry, now |-> result.st])

\* values is the address of the Tuple or Array whose Elements slice is passed
evalTupleUnpacking(targets, values, env, st) ==
    IF Len(targets) # Len(st.heap[values].Elements)
    THEN newError(st, "unpacking mismatch")
    ELSE LET assigned == assignTargets(targets, values, 1, env,
                                       [entry |-> st, now |-> st])
         IN  IF assigned.o # Nil THEN assigned
             ELSE Alloc(assigned.st,
                        [t |-> "TUPLE",
                         Elements |-> assigned.st.heap[values].Elements])

evalAssignStatement(node, env, st) ==
    LET target == node.Name IN
    CASE target.kind = "Identifier" ->
            LET val == Eval(node.Value, env, st) IN
            IF isError(val.st, val.o) THEN val
            ELSE Ret(val.o, Set(val.st, env, target.Value, val.o))
      [] target.kind = "TupleAssignment" ->
            LET val == Eval(node.Value, env, st) IN
            IF isError(val.st, val.o) THEN val
            ELSE IF Type(val.st, val.o) \notin {"TUPLE", "ARRAY"}
            THEN newError(val.st, "cannot unpack non-iterable")
            ELSE IF Len(val.st.heap[val.o].Elements) # Len(target.Elements)
            THEN newError(val.st, "cannot unpack: count mismatch")
            ELSE evalTupleUnpacking(target.Elements, val.o, env, val.st)
      [] target.kind = "DotExpression" ->
            LET left == Eval(target.Left, env, st) IN
            IF isError(left.st, left.o) THEN left
            ELSE IF Type(left.st, left.o) # "INSTANCE"
            THEN newError(left.st, "invalid assignment target")
            ELSE LET val == Eval(node.Value, env, left.st) IN
                 IF isError(val.st, val.o) THEN val
                 ELSE Ret(val.o, Set(val.st, val.st.heap[left.o].Env,
                                     target.Right, val.o))
      [] target.kind = "IndexExpression" ->
            LET left == Eval(target.Left, env, st) IN
            IF isError(left.st, left.o) THEN left
            ELSE LET index == Eval(target.Index, env, left.st) IN
            IF isError(index.st, index.o) THEN index
            ELSE LET val == Eval(node.Value, env, index.st) IN
            IF isError(val.st, val.o) THEN val
            ELSE IF Type(val.st, left.o) = "ARRAY" /\ Type(val.st, index.o) = "INTEGER"
            THEN assignElement(val.st, left.o, index.o, val.o)
            ELSE newError(val.st, "invalid assignment target")
      [] target.kind = "TupleLiteral" ->
            LET val == Eval(node.Value, env, st) IN
            IF isError(val.st, val.o) THEN val
            ELSE IF Type(val.st, val.o) \notin {"TUPLE", "ARRAY"}
            THEN newError(val.st, "cannot unpack non-iterable type")
            ELSE evalTupleUnpacking(target.Elements, val.o, env, val.st)
      [] OTHER -> newError(st, "invalid assignment target")

\* The return of evalCallExpression to Eval: its frame leaves the stack
returned(r) == Ret(r.o, [r.st EXCEPT !.depth = @ - 1])

evalCompoundAssignment(node, env, st) ==
    LET rightVal == Eval(node.Right, env, st) IN
    compoundAssign(node, env, rightVal.st, rightVal.o)

\* The type switch of Eval
EvalNode(node, env, st) ==
    CASE node.kind = "Program" -> evalProgram(node, env, st)
      [] node.kind = "ExpressionStatement" -> Eval(node.Expression, env, st)
      [] node.kind = "BlockStatement" -> evalBlockStatement(node, env, st)
      [] node.kind = "IfStatement" -> evalIfExpression(node, env, st)
      [] node.kind = "StopStatement" -> Ret(STOP, st)
      [] node.kind = "SkipStatement" -> Ret(SKIP, st)
      [] node.kind = "InfixExpression" ->
            IF node.Operator \in {"+=", "-=", "*=", "/="}
            THEN evalCompoundAssignment(node, env, st)
            ELSE IF node.Operator \in {"and", "or"}
            THEN LET left == Eval(node.Left, env, st) IN
                 IF isError(left.st, left.o) THEN left
                 ELSE IF isTruthy(left.st, left.o) = (node.Operator = "or") THEN left
                 ELSE Eval(node.Right, env, left.st)
            ELSE LET right == Eval(node.Right, env, st) IN
                 IF isError(right.st, right.o) THEN right
                 ELSE LET left == Eval(node.Left, env, right.st) IN
                      IF isError(left.st, left.o) THEN left
                      ELSE evalInfixExpression(left.st, node.Operator, left.o, right.o)
      [] node.kind = "PrefixExpression" ->
            IF node.Operator \in {"++", "--"}
            THEN evalPrefixIncrementDecrement(node.Operator, node, env, st)
            ELSE LET right == Eval(node.Right, env, st) IN
                 IF isError(right.st, right.o) THEN right
                 ELSE evalPrefixExpression(node.Operator, node, env, right.st)
      [] node.kind = "PostfixExpression" ->
            evalPostfixIncrementDecrement(node.Operator, node, env, st)
      [] node.kind = "IntegerLiteral" ->
            Alloc(st, [t |-> "INTEGER", Value |-> node.Value])
      [] node.kind = "NoneLiteral" -> Ret(objectNONE, st)
      [] node.kind = "ReturnStatement" ->
            LET val == Eval(node.ReturnValue, env, st) IN
            IF isError(val.st, val.o) THEN val
            ELSE Alloc(val.st, [t |-> "RETURN_VALUE", Value |-> val.o])
      [] node.kind = "Boolean" -> Ret(nativeBoolToBooleanObject(node.Value), st)
      [] node.kind = "AssignStatement" -> evalAssignStatement(node, env, st)
      [] node.kind = "WhileStatement" -> evalWhileStatement(node, env, st)
      [] node.kind = "ForStatement" -> evalForStatement(node, env, st)
      [] node.kind = "RaiseStatement" -> evalRaiseStatement(node, env, st)
      [] node.kind = "Identifier" -> evalIdentifier(node, env, st)
      [] node.kind = "ArrayLiteral" -> evalSequenceLiteral(node, "ARRAY", env, st)
      [] node.kind = "StringLiteral" ->
            Alloc(st, [t |-> "STRING", Value |-> node.Value])
      [] node.kind = "TupleLiteral" -> evalTupleLiteral(node, env, st)
      [] node.kind = "FunctionDefinition" ->
            LET fnObj == Alloc(st, [t |-> "FUNCTION",
                                    Parameters |-> node.Parameters,
                                    Body |-> node.Body,
                                    Env |-> env,
                                    IsPrivate |-> FALSE,
                                    IsProtected |-> FALSE,
                                    IsAbstract |-> FALSE])
            IN  Ret(fnObj.o, Set(fnObj.st, env, node.Name, fnObj.o))
      [] node.kind = "DotExpression" -> evalDotExpression(node, env, st)
      [] node.kind = "IndexExpression" ->
            LET left == Eval(node.Left, env, st) IN
            IF isError(left.st, left.o) THEN left
            ELSE LET index == Eval(node.Index, env, left.st) IN
                 IF isError(index.st, index.o) THEN index
                 ELSE evalIndexExpression(index.st, left.o, index.o)
      [] node.kind = "GrimoireDefinition" -> evalGrimoireDefinition(node, env, st)
      [] node.kind = "ArcaneGrimoire" -> evalArcaneGrimoire(node, env, st)
      [] node.kind = "ImportStatement" -> evalImportStatement(node, env, st)
      [] node.kind = "AttemptStatement" -> evalAttemptStatement(node, env, st)
      [] node.kind = "IgnoreStatement" -> Ret(objectNONE, st)
      [] node.kind = "CallExpression" ->
            IF st.depth >= MaxStack THEN Ret(NONE, [st EXCEPT !.fatal = TRUE])
            ELSE LET function == Eval(node.Function, env, [st EXCEPT !.depth = @ + 1])
                     arguments == evalExpressions(node.Arguments, env, function.st)
                 IN  returned(evalCallExpression(function.o, arguments.objs, env,
                                                 arguments.st))
      [] OTHER -> Ret(NONE, st)

\* r, recorded in the trace if node carries a position
traced(node, r) ==
    IF "pos" \in DOMAIN node
    THEN Ret(r.o, [r.st EXCEPT !.trace =
                     Append(@, [pos |-> node.pos, o |-> r.o, t |-> Type(r.st, r.o)])])
    ELSE r

\* Eval, recording in the trace what a node that carries a position returned
Eval(node, env, st) == traced(node, EvalNode(node, env, st))

(***************************************************************************)
(* Source texts the lexer is run on: up to MaxLines physical lines, each   *)
(* an indentation followed by a body, joined by newlines (a final empty    *)
(* line is a trailing newline), and the scenario text of the               *)
(* specification.                                                          *)
(***************************************************************************)
Indents == {<<>>, <<" ">>, <<" ", " ">>, <<"\t">>}

\* Lines that exercise the layout algorithm: a blank (or whitespace-only)
\* line and an identifier, at every indentation.
LayoutBodies == {<<>>, <<"a">>}

\* Lines that exercise the token rules and their failure cases.
TokenLines == {<<"\"", "a">>,             \* unterminated string
               <<"'", "'", "'", "a">>,     \* docstring opener
               <<"a", "'", "'", "'", " ">>,\* docstring closer
               <<"/", "*">>,               \* block comment opener
               <<" ", "*", "/", "1">>,     \* block comment closer
               <<"f", "\"", "\\">>,        \* f-string ending in a backslash
               <<"$", "_">>}               \* illegal character, underscore

LineSet == {ind \o body : ind \in Indents, body \in LayoutBodies} \cup TokenLines

RECURSIVE Join(_)
Join(ls) ==
    IF Len(ls) = 0 THEN <<>>
    ELSE IF Len(ls) = 1 THEN ls[1]
    ELSE ls[1] \o <<"\n">> \o Join(Tail(ls))

ScenarioSource ==
    Join(<< <<"i", "f", " ", "x", ":">>,
            <<" ", " ", "y", " ", "=", " ", "1">>,
            <<" ", " ", "z", " ", "=", " ", "2">>,
            <<"w", " ", "=", " ", "3">>,
            <<>> >>)

Sources ==
    {Join(ls) : ls \in UNION {[1..n -> LineSet] : n \in 1..MaxLines}}
        \cup {ScenarioSource}

(***************************************************************************)
(* Evaluator state while the lexer runs (and the lexer while Eval runs).   *)
(***************************************************************************)
IdleLexer == New(<<>>)

(***************************************************************************)
(* The lexer as a state machine: New(input), then NextToken calls.         *)
(***************************************************************************)
CountOf(seq, type) == Cardinality({i \in 1..Len(seq) : seq[i] = type})

LexInit ==
    /\ \E input \in Sources : l = New(input)
    /\ tokens = <<>>
    /\ prog = <<>>
    /\ store = <<>>
    /\ outcome = Nil
    /\ pc = 0
    /\ phase = "lexing"
    /\ session = 0

CallNextToken ==
    /\ phase = "lexing"
    /\ CountOf(tokens, "EOF") < MaxEOF
    /\ LET r == NextToken(l) IN
        /\ l' = r.l
        /\ tokens' = Append(tokens, r.type)
    /\ UNCHANGED <<prog, store, outcome, pc, phase, session>>

LexNext == CallNextToken

SpecLexer == LexInit /\ [][LexNext]_vars

(***************************************************************************)
(* Lexer claims                                                            *)
(***************************************************************************)
Top(stack) == stack[Len(stack)]

LastToken == IF tokens = <<>> THEN "NONE" ELSE tokens[Len(tokens)]

FirstEOF == LastToken = "EOF" /\ CountOf(tokens, "EOF") = 1

\* The number of characters of the source text the lexer was built from.
RECURSIVE SumLen(_)
SumLen(ls) == IF ls = <<>> THEN 0 ELSE Len(ls[1]) + SumLen(Tail(ls))

\* The last physical line that holds anything but whitespace (0 if none).
LastCodeLine(ls) ==
    LET code == {i \in 1..Len(ls) : measureIndent(ls[i]) < Len(ls[i])} IN
    IF code = {} THEN 0 ELSE CHOOSE i \in code : \A j \in code : j <= i

EndsDeeper(ls) ==
    LastCodeLine(ls) > 0 /\ measureIndent(ls[LastCodeLine(ls)]) > measureIndent(ls[1])

\* C6: while a DEDENT was just emitted for the current line and the top of
\* the indent stack is still above the line's indentation, the next
\* NextToken call emits another DEDENT (one stack level per call, until the
\* top of the stack equals the line's indentation).
C6_DedentUntilMatch ==
    (/\ phase = "lexing"
     /\ LastToken = "DEDENT"
     /\ ~l.finished
     /\ Top(l.indentStack) > measureIndent(l.currLine))
        => NextToken(l).type = "DEDENT"

\* C7: for a source whose last line is indented deeper than its first line,
\* when the first EOF is returned as many DEDENT as INDENT tokens have been
\* emitted and the indent stack is back to <<0>>.
C7_DedentsBeforeEOF ==
    (phase = "lexing" /\ FirstEOF /\ EndsDeeper(l.lines))
        => /\ CountOf(tokens, "DEDENT") = CountOf(tokens, "INDENT")
           /\ l.indentStack = <<0>>

\* A bound on the tokens of a source: its characters and two layout tokens
\* per line
TokenBound(ls) == SumLen(ls) + 2 * Len(ls)

C8_Bounded ==
    phase = "lexing" =>
        /\ ~l.finished => Len(tokens) < TokenBound(l.lines)
        /\ \A i \in 1..Len(tokens) :
              (tokens[i] = "EOF" /\ \A j \in 1..(i - 1) : tokens[j] # "EOF")
                  => i <= TokenBound(l.lines) + 1

C8_EOFSticky ==
    (phase = "lexing" /\ LastToken = "EOF")
        => (l' = l /\ tokens' = Append(tokens, "EOF"))

\* C8: NextToken returns EOF after a number of calls bounded by the length
\* of the source (its characters plus two layout tokens per line), and once
\* EOF has been returned every later call returns EOF and leaves the lexer
\* unchanged.
C8_EOFAfterFinitelyManyCalls == []C8_Bounded /\ [][C8_EOFSticky]_vars

C8_Witness ==
    /\ phase = "lexing"
    /\ CountOf(tokens, "EOF") = 2
    /\ CountOf(tokens, "ILLEGAL") > 0
    /\ CountOf(tokens, "STRING") > 0

\* The tokens the scenario text is expected to include, in this order
ScenarioTokens ==
    <<"IF", "IDENT", "COLON", "NEWLINE", "INDENT",
      "IDENT", "ASSIGN", "INT", "NEWLINE",
      "IDENT", "ASSIGN", "INT", "NEWLINE", "DEDENT",
      "IDENT", "ASSIGN", "INT", "NEWLINE", "EOF">>

\* want[i..] occurs in order (not necessarily adjacently) in got[j..]
RECURSIVE IncludesFrom(_, _, _, _)
IncludesFrom(got, want, i, j) ==
    IF i > Len(want) THEN TRUE
    ELSE IF j > Len(got) THEN FALSE
    ELSE IF got[j] = want[i] THEN IncludesFrom(got, want, i + 1, j + 1)
    ELSE IncludesFrom(got, want, i, j + 1)

IncludesInOrder(got, want) == IncludesFrom(got, want, 1, 1)

\* C9: the scenario text yields a token stream that contains the expected
\* tokens in order, with exactly one INDENT and exactly one DEDENT.
C9_ScenarioStream ==
    (phase = "lexing" /\ l.lines = Split(ScenarioSource) /\ FirstEOF)
        => /\ IncludesInOrder(tokens, ScenarioTokens)
           /\ CountOf(tokens, "INDENT") = 1
           /\ CountOf(tokens, "DEDENT") = 1

C9_Witness ==
    phase = "lexing" /\ l.lines = Split(ScenarioSource) /\ FirstEOF

\* A line of nothing but spaces and tabs
IsBlankLine(line) == \A i \in 1..Len(line) : line[i] \in {" ", "\t"}

\* The lexer stands on a blank line whose neighbours are code lines of one
\* indented block (the same indentation, above 0).
OnBlankLineInBlock ==
    /\ phase = "lexing"
    /\ ~l.finished
    /\ l.lineIndex >= 1
    /\ l.lineIndex + 2 <= Len(l.lines)
    /\ IsBlankLine(l.lines[l.lineIndex + 1])
    /\ ~IsBlankLine(l.lines[l.lineIndex])
    /\ ~IsBlankLine(l.lines[l.lineIndex + 2])
    /\ measureIndent(l.lines[l.lineIndex]) = measureIndent(l.lines[l.lineIndex + 2])
    /\ measureIndent(l.lines[l.lineIndex]) > 0

BlankLineStep ==
    OnBlankLineInBlock =>
        /\ tokens'[Len(tokens')] \notin {"INDENT", "DEDENT"}
        /\ l'.indentStack = l.indentStack

\* C29: every NextToken call made while the lexer stands on a blank line
\* between two lines of the same indented block returns neither INDENT nor
\* DEDENT and leaves the indent stack as it was.
C29_BlankLineKeepsBlock == [][BlankLineStep]_vars

StackWellFormed(stack) ==
    /\ Len(stack) >= 1
    /\ stack[1] = 0
    /\ \A i \in 1..(Len(stack) - 1) : stack[i] < stack[i + 1]

\* C30: the indent stack is never empty, its bottom element is 0 and its
\* elements increase strictly from bottom to top; in every prefix of the
\* token stream there are at most as many DEDENT as INDENT tokens.
C30_IndentStackWellFormed ==
    phase = "lexing" =>
        /\ StackWellFormed(l.indentStack)
        /\ \A n \in 0..Len(tokens) :
              CountOf(SubSeq(tokens, 1, n), "DEDENT")
                  <= CountOf(SubSeq(tokens, 1, n), "INDENT")

C30_Witness ==
    /\ phase = "lexing"
    /\ CountOf(tokens, "INDENT") = 2
    /\ CountOf(tokens, "DEDENT") = 1
    /\ Len(l.indentStack) = 2
    /\ l.indentStack[2] > 0

(***************************************************************************)
(* AST nodes handed to Eval.  A node that carries pos is reported in the   *)
(* trace under that position.                                              *)
(***************************************************************************)
Mark(node, pos) == [pos |-> pos] @@ node

Identifier(name) == [kind |-> "Identifier", Value |-> name]

IntegerLiteral(v) == [kind |-> "IntegerLiteral", Value |-> v]

StringLiteral(v) == [kind |-> "StringLiteral", Value |-> v]

TupleLiteral(elements) == [kind |-> "TupleLiteral", Elements |-> elements]

ArrayLiteral(elements) == [kind |-> "ArrayLiteral", Elements |-> elements]

IndexExpression(left, index) ==
    [kind |-> "IndexExpression", Left |-> left, Index |-> index]

DotExpression(left, right) ==
    [kind |-> "DotExpression", Left |-> left, Right |-> right]

CallExpression(function, arguments) ==
    [kind |-> "CallExpression", Function |-> function, Arguments |-> arguments]

InfixExpression(left, operator, right) ==
    [kind |-> "InfixExpression", Left |-> left, Operator |-> operator, Right |-> right]

PrefixExpression(operator, right) ==
    [kind |-> "PrefixExpression", Operator |-> operator, Right |-> right]

PostfixExpression(left, operator) ==
    [kind |-> "PostfixExpression", Left |-> left, Operator |-> operator]

ExpressionStatement(expression) ==
    [kind |-> "ExpressionStatement", Expression |-> expression]

AssignStatement(name, value) ==
    [kind |-> "AssignStatement", Name |-> name, Value |-> value]

BlockStatement(statements) == [kind |-> "BlockStatement", Statements |-> statements]

ReturnStatement(value) == [kind |-> "ReturnStatement", ReturnValue |-> value]

RaiseStatement(error) == [kind |-> "RaiseStatement", Error |-> error]

IfStatement(condition, consequence) ==
    [kind |-> "IfStatement", Condition |-> condition, Consequence |-> consequence,
     OtherwiseBranches |-> <<>>, Alternative |-> NoNode]

WhileStatement(condition, body) ==
    [kind |-> "WhileStatement", Condition |-> condition, Body |-> body]

ForStatement(variable, iterable, body) ==
    [kind |-> "ForStatement", Variable |-> variable, Iterable |-> iterable,
     Body |-> body, Alternative |-> NoNode]

EnsnareClause(condition, consequence) ==
    [Condition |-> condition, Consequence |-> consequence]

AttemptStatement(tryBlock, ensnareClauses, resolveBlock) ==
    [kind |-> "AttemptStatement", TryBlock |-> tryBlock,
     EnsnareClauses |-> ensnareClauses, ResolveBlock |-> resolveBlock]

Parameter(name) == [Name |-> name, DefaultValue |-> NoNode]

\* grim <name>: init(self, msg): self.message = msg
ErrorGrimoire(name) ==
    [kind |-> "GrimoireDefinition", Name |-> name, Inherits |-> NoNode,
     Methods |-> <<>>, IsArcane |-> FALSE,
     InitMethod |->
        [kind |-> "FunctionDefinition", Name |-> "init",
         Parameters |-> <<Parameter("self"), Parameter("msg")>>,
         Body |-> BlockStatement(
                    <<AssignStatement(DotExpression(Identifier("self"), "message"),
                                      Identifier("msg"))>>)]]

FunctionDefinition(name, parameters, body) ==
    [kind |-> "FunctionDefinition", Name |-> name, Parameters |-> parameters,
     Body |-> body]

\* spell / arcanespell <name>(<parameters>): <body>
MethodDefinition(name, parameters, body, isArcaneSpell) ==
    [IsArcaneSpell |-> isArcaneSpell] @@ FunctionDefinition(name, parameters, body)

\* grim / arcane grim <name>(<inherits>): <init> <methods>
GrimoireDefinition(name, inherits, initMethod, methods, isArcane) ==
    [kind |-> "GrimoireDefinition", Name |-> name, Inherits |-> inherits,
     InitMethod |-> initMethod, Methods |-> methods, IsArcane |-> isArcane]

\* import "<filePath>" [as <alias>]; alias "" stands for no alias
ImportStatement(filePath, alias) ==
    [kind |-> "ImportStatement", FilePath |-> filePath,
     Alias |-> IF alias = "" THEN NoNode ELSE Identifier(alias)]

Program(statements) == [kind |-> "Program", Statements |-> statements]

(***************************************************************************)
(* Programs with a statement block: the body of a while loop, the body of  *)
(* a for loop, a BlockStatement, the program itself.                       *)
(***************************************************************************)
BodyKinds == {"assign", "stop", "skip", "return", "raise", "undefined"}

BodyStatement(k, i) ==
    Mark(CASE k = "assign" -> AssignStatement(Identifier("x"), IntegerLiteral(i))
           [] k = "stop" -> [kind |-> "StopStatement"]
           [] k = "skip" -> [kind |-> "SkipStatement"]
           [] k = "return" -> ReturnStatement(IntegerLiteral(7))
           [] k = "raise" -> RaiseStatement(StringLiteral("e"))
           [] k = "undefined" -> ExpressionStatement(Identifier("undefinedName")),
         <<"body", i>>)

Body(ks) == [i \in 1..Len(ks) |-> BodyStatement(ks[i], i)]

BodyShapes == UNION {[1..n -> BodyKinds] : n \in 1..MaxBody}

\* n++ < 2
LoopCondition ==
    Mark(InfixExpression(PostfixExpression(Identifier("n"), "++"), "<",
                         IntegerLiteral(2)),
         <<"cond", 0>>)

\* n = 0; while n++ < 2: <body>
WhileProgram(ks) ==
    Program(<<AssignStatement(Identifier("n"), IntegerLiteral(0)),
              Mark(WhileStatement(LoopCondition, BlockStatement(Body(ks))),
                   <<"while", 0>>)>>)

\* for v in [1, 2]: <body>
ForProgram(ks) ==
    Program(<<Mark(ForStatement(Identifier("v"),
                                ArrayLiteral(<<IntegerLiteral(1), IntegerLiteral(2)>>),
                                BlockStatement(Body(ks))),
                   <<"for", 0>>)>>)

\* if True: <body>
BlockProgram(ks) ==
    Program(<<IfStatement([kind |-> "Boolean", Value |-> TRUE],
                          Mark(BlockStatement(Body(ks)), <<"block", 0>>))>>)

IsBlockProgram(program) ==
    \E ks \in BodyShapes :
        \/ program = WhileProgram(ks)
        \/ program = ForProgram(ks)
        \/ program = BlockProgram(ks)
        \/ program = Program(Body(ks))

(***************************************************************************)
(* Programs with an attempt statement.  Old is the first grimoire named    *)
(* ValueError; the name ValueError is then bound to a second grimoire.     *)
(***************************************************************************)
AttemptPrelude ==
    <<ErrorGrimoire("ValueError"),
      AssignStatement(Identifier("Old"), Identifier("ValueError")),
      ErrorGrimoire("ValueError"),
      ErrorGrimoire("OtherError")>>

TryKinds == {"succeed", "raiseValueError", "raiseOld", "raiseOtherError",
             "raiseString", "undefined", "return"}

RaiseInstance(name) ==
    RaiseStatement(CallExpression(Identifier(name), <<StringLiteral("bad")>>))

TryBlock(k) ==
    Mark(BlockStatement(
           <<CASE k = "succeed" -> AssignStatement(Identifier("t"), IntegerLiteral(1))
               [] k = "raiseValueError" -> RaiseInstance("ValueError")
               [] k = "raiseOld" -> RaiseInstance("Old")
               [] k = "raiseOtherError" -> RaiseInstance("OtherError")
               [] k = "raiseString" -> RaiseStatement(StringLiteral("oops"))
               [] k = "undefined" -> ExpressionStatement(Identifier("undefinedName"))
               [] k = "return" -> ReturnStatement(IntegerLiteral(7))>>),
         <<"try", 0>>)

GuardKinds == {"ValueError", "Old", "OtherError", "stringValueError",
               "stringError", "undefined", "integer"}

Guard(k, j) ==
    Mark(CASE k = "stringValueError" -> StringLiteral("ValueError")
           [] k = "stringError" -> StringLiteral("Error")
           [] k = "undefined" -> Identifier("undefinedGuard")
           [] k = "integer" -> IntegerLiteral(5)
           [] OTHER -> Identifier(k),
         <<"guard", j>>)

HandlerVariable(j) == IF j = 1 THEN "x" ELSE "x_later"

Handler(j) ==
    Mark(BlockStatement(<<AssignStatement(Identifier(HandlerVariable(j)),
                                          StringLiteral("caught"))>>),
         <<"handler", j>>)

EnsnareClauses(gs) == [j \in 1..Len(gs) |-> EnsnareClause(Guard(gs[j], j), Handler(j))]

GuardShapes == UNION {[1..n -> GuardKinds] : n \in 0..MaxClauses}

ResolveKinds == {"none", "assign", "undefined"}

ResolveBlock(k) ==
    CASE k = "none" -> NoNode
      [] k = "assign" ->
            Mark(BlockStatement(<<AssignStatement(Identifier("y"),
                                                  StringLiteral("done"))>>),
                 <<"resolve", 0>>)
      [] k = "undefined" ->
            Mark(BlockStatement(<<ExpressionStatement(Identifier("undefinedResolve"))>>),
                 <<"resolve", 0>>)

AttemptProgram(t, gs, r) ==
    Program(AttemptPrelude \o
            <<Mark(AttemptStatement(TryBlock(t), EnsnareClauses(gs), ResolveBlock(r)),
                   <<"attempt", 0>>)>>)

IsAttemptProgram(program) ==
    \E t \in TryKinds, gs \in GuardShapes, r \in ResolveKinds :
        program = AttemptProgram(t, gs, r)

(***************************************************************************)
(* Programs with a tuple-pattern assignment, after                         *)
(* a = 1; b = 2; c = 0; d = 0; arr = [10, 20].                             *)
(***************************************************************************)
UnpackPrelude ==
    <<AssignStatement(Identifier("a"), IntegerLiteral(1)),
      AssignStatement(Identifier("b"), IntegerLiteral(2)),
      AssignStatement(Identifier("c"), IntegerLiteral(0)),
      AssignStatement(Identifier("d"), IntegerLiteral(0)),
      AssignStatement(Identifier("arr"),
                      ArrayLiteral(<<IntegerLiteral(10), IntegerLiteral(20)>>))>>

TargetKinds == {"a", "b", "arr0", "arr1", "nested"}

Target(k) ==
    CASE k = "arr0" -> IndexExpression(Identifier("arr"), IntegerLiteral(0))
      [] k = "arr1" -> IndexExpression(Identifier("arr"), IntegerLiteral(1))
      [] k = "nested" -> TupleLiteral(<<Identifier("c"), Identifier("d")>>)
      [] OTHER -> Identifier(k)

Targets(ks) == [i \in 1..Len(ks) |-> Target(ks[i])]

TargetShapes == UNION {[1..n -> TargetKinds] : n \in 1..MaxTargets}

PatternKinds == {"TupleAssignment", "TupleLiteral"}

ValueKinds == {"swapIdentifiers", "swapElements", "arr", "three", "nested",
               "nestedLong", "integer"}

Value(k) ==
    CASE k = "swapIdentifiers" -> TupleLiteral(<<Identifier("b"), Identifier("a")>>)
      [] k = "swapElements" ->
            TupleLiteral(<<IndexExpression(Identifier("arr"), IntegerLiteral(1)),
                           IndexExpression(Identifier("arr"), IntegerLiteral(0))>>)
      [] k = "arr" -> Identifier("arr")
      [] k = "three" ->
            TupleLiteral(<<IntegerLiteral(1), IntegerLiteral(2), IntegerLiteral(3)>>)
      [] k = "nested" ->
            TupleLiteral(<<IntegerLiteral(7),
                           TupleLiteral(<<IntegerLiteral(8), IntegerLiteral(9)>>)>>)
      [] k = "nestedLong" ->
            TupleLiteral(<<IntegerLiteral(7),
                           TupleLiteral(<<IntegerLiteral(8), IntegerLiteral(9),
                                          IntegerLiteral(10)>>)>>)
      [] k = "integer" -> IntegerLiteral(5)

UnpackProgram(p, ks, v) ==
    Program(UnpackPrelude \o
            <<Mark(AssignStatement([kind |-> p, Elements |-> Targets(ks)], Value(v)),
                   <<"unpack", 0>>)>>)

IsUnpackProgram(program) ==
    \E p \in PatternKinds, ks \in TargetShapes, v \in ValueKinds :
        program = UnpackProgram(p, ks, v)

\* Programs for ++ and --: x bound to an Integer, bound to a String or
\* unbound, then up to MaxOps statements that apply the operators to x.
OperandKinds == {"integer", "string", "unbound"}

InitialValues == {0, 5}

OperandPrelude(k, v) ==
    CASE k = "integer" ->
            <<Mark(AssignStatement(Identifier("x"), IntegerLiteral(v)), <<"integer", 0>>)>>
      [] k = "string" ->
            <<Mark(AssignStatement(Identifier("x"), StringLiteral("s")), <<"string", 0>>)>>
      [] OTHER -> <<>>

OpKinds == {"++x", "--x", "x++", "x--", "y=++x", "y=x++", "z=x"}

OpExpression(k) ==
    CASE k \in {"++x", "y=++x"} -> PrefixExpression("++", Identifier("x"))
      [] k = "--x" -> PrefixExpression("--", Identifier("x"))
      [] k \in {"x++", "y=x++"} -> PostfixExpression(Identifier("x"), "++")
      [] k = "x--" -> PostfixExpression(Identifier("x"), "--")
      [] OTHER -> Identifier("x")

OpStatement(k, i) ==
    Mark(CASE k \in {"y=++x", "y=x++"} -> AssignStatement(Identifier("y"), OpExpression(k))
           [] k = "z=x" -> AssignStatement(Identifier("z"), OpExpression(k))
           [] OTHER -> ExpressionStatement(OpExpression(k)),
         <<k, i>>)

OpShapes == UNION {[1..n -> OpKinds] : n \in 1..MaxOps}

IncDecProgram(k, v, ops) ==
    Program(OperandPrelude(k, v) \o [i \in 1..Len(ops) |-> OpStatement(ops[i], i)])

IsIncDecProgram(program) ==
    \E k \in OperandKinds, v \in InitialValues, ops \in OpShapes :
        program = IncDecProgram(k, v, ops)

\* The node of an arcane grimoire that is an ast.ArcaneGrimoire
ArcaneGrimoire(name, methods) ==
    [kind |-> "ArcaneGrimoire", Name |-> name, Methods |-> methods]

\* Programs for inheritance: a parent grimoire P with up to MaxMethods
\* methods, each abstract or concrete, a grimoire G that inherits from P and
\* overrides some of them, either of them arcane or not (P arcane by its
\* token or as an ast.ArcaneGrimoire), and a call of one of the two.
MethodNames == <<"speak", "move", "rest", "wake">>

MethodKinds == {"abstract", "concrete"}

MethodShapes == UNION {[1..n -> MethodKinds] : n \in 0..MaxMethods}

MethodBody == BlockStatement(<<ReturnStatement(IntegerLiteral(1))>>)

ParentMethods(ks) ==
    [i \in 1..Len(ks) |->
        MethodDefinition(MethodNames[i], <<Parameter("self")>>, MethodBody,
                         ks[i] = "abstract")]

Increasing(is) == \A i \in 1..Len(is) - 1 : is[i] < is[i + 1]

\* The increasing sequences of indices out of 1..n: which methods G overrides
OverrideShapes(n) == {is \in UNION {[1..k -> 1..n] : k \in 0..n} : Increasing(is)}

ChildMethods(is) ==
    [j \in 1..Len(is) |->
        MethodDefinition(MethodNames[is[j]], <<Parameter("self")>>, MethodBody, FALSE)]

MarkedInit ==
    FunctionDefinition("init", <<Parameter("self")>>,
        BlockStatement(<<Mark(AssignStatement(DotExpression(Identifier("self"), "ready"),
                                              IntegerLiteral(1)),
                              <<"init", 0>>)>>))

ParentForms == {"grim", "arcane grim", "ArcaneGrimoire"}

ParentDefinition(form, ks) ==
    IF form = "ArcaneGrimoire" THEN ArcaneGrimoire("P", ParentMethods(ks))
    ELSE GrimoireDefinition("P", NoNode, MarkedInit, ParentMethods(ks),
                            form = "arcane grim")

InheritProgram(ks, is, parentForm, childArcane, callee) ==
    Program(<<Mark(ParentDefinition(parentForm, ks), <<"parent", 0>>),
              Mark(GrimoireDefinition("G", Identifier("P"), MarkedInit, ChildMethods(is),
                                      childArcane), <<"child", 0>>),
              Mark(ExpressionStatement(CallExpression(Identifier(callee), <<>>)),
                   <<"call", 0>>)>>)

IsInheritProgram(program) ==
    \E ks \in MethodShapes : \E is \in OverrideShapes(Len(ks)) :
    \E parentForm \in ParentForms, childArcane \in BOOLEAN, callee \in {"P", "G"} :
        program = InheritProgram(ks, is, parentForm, childArcane, callee)

\* Programs for member access: grimoires U (unrelated), P and G (inherits
\* from P), P defined as a `grim` or as an ast.ArcaneGrimoire; an instance
\* of each that can have one; then `target.member` evaluated at the top
\* level or inside the method probe called on an instance.
MemberNames == {"__secret", "_helper", "open"}

ReturnOne(name) ==
    MethodDefinition(name, <<>>, BlockStatement(<<ReturnStatement(IntegerLiteral(1))>>),
                     FALSE)

Access(target, member) == Mark(DotExpression(Identifier(target), member), <<"access", 0>>)

\* spell probe(other): return other.<member>
Probe(member) ==
    MethodDefinition("probe", <<Parameter("other")>>,
                     BlockStatement(<<ReturnStatement(Access("other", member))>>), FALSE)

MemberMethods(member) ==
    <<ReturnOne("__secret"), ReturnOne("_helper"), ReturnOne("open"), Probe(member)>>

AccessorKinds == {"top level", "a", "b", "u"}

AccessStatement(accessor, target, member) ==
    Mark(ExpressionStatement(
            IF accessor = "top level" THEN Access(target, member)
            ELSE CallExpression(DotExpression(Identifier(accessor), "probe"),
                                <<Identifier(target)>>)),
         <<"probe", 0>>)

Instantiate(name, grimoire) ==
    AssignStatement(Identifier(name), CallExpression(Identifier(grimoire), <<>>))

MemberProgram(form, member, accessor, target) ==
    Program(<<GrimoireDefinition("U", NoNode, NoNode, <<Probe(member)>>, FALSE),
              IF form = "ArcaneGrimoire"
              THEN ArcaneGrimoire("P", MemberMethods(member))
              ELSE GrimoireDefinition("P", NoNode, NoNode, MemberMethods(member), FALSE),
              GrimoireDefinition("G", Identifier("P"), NoNode, <<>>, FALSE),
              Instantiate("b", "G"), Instantiate("u", "U")>>
            \o (IF form = "ArcaneGrimoire" THEN <<>> ELSE <<Instantiate("a", "P")>>)
            \o <<AccessStatement(accessor, target, member)>>)

IsMemberProgram(program) ==
    \E form \in {"grim", "ArcaneGrimoire"}, member \in MemberNames,
       accessor \in AccessorKinds, target \in {"a", "b"} :
        program = MemberProgram(form, member, accessor, target)

\* Programs for field and method lookup: a grimoire P whose init sets the
\* field size and which has the method speak; possibly a global variable
\* named like the method (speak) or like nothing in P (free); b = P(); then
\* b.<name>.
GlobalKinds == {"none", "speak", "free"}

LookupNames == {"size", "speak", "free", "missing"}

SizedGrimoire ==
    GrimoireDefinition("P", NoNode,
        FunctionDefinition("init", <<>>,
            BlockStatement(<<AssignStatement(DotExpression(Identifier("self"), "size"),
                                             IntegerLiteral(1))>>)),
        <<ReturnOne("speak")>>, FALSE)

LookupProgram(global, name) ==
    Program(<<SizedGrimoire>>
            \o (IF global = "none" THEN <<>>
                ELSE <<AssignStatement(Identifier(global), IntegerLiteral(5))>>)
            \o <<Instantiate("b", "P"),
                 Mark(ExpressionStatement(Access("b", name)), <<"member", 0>>)>>)

IsLookupProgram(program) ==
    \E global \in GlobalKinds, name \in LookupNames : program = LookupProgram(global, name)

\* Programs for errors inside calls: functions f1 .. fk, each returning the
\* call of the next and the last one evaluating an unbound name, then the
\* call f1() (for k = 0 the unbound name itself).
FunctionNames == <<"f1", "f2", "f3", "f4">>

Failing == Identifier("undefinedName")

NestedBody(i, k) ==
    BlockStatement(<<ReturnStatement(IF i = k THEN Failing
                                     ELSE CallExpression(Identifier(FunctionNames[i + 1]),
                                                         <<>>))>>)

NestedProgram(k) ==
    Program([i \in 1..k |-> FunctionDefinition(FunctionNames[i], <<>>, NestedBody(i, k))]
            \o <<Mark(ExpressionStatement(IF k = 0 THEN Failing
                                          ELSE CallExpression(Identifier("f1"), <<>>)),
                      <<"nested", k>>)>>)

IsNestedProgram(program) == \E k \in 0..MaxDepth : program = NestedProgram(k)

\* Programs for comparisons: spell f(p): return p and spell g(): if False: 1,
\* then one comparison of two operands.  An operand is a literal or one of
\* the expressions that evaluate to a None: the None literal, the name None,
\* q[1] for a one-element Array or Tuple q, f() with p left unbound, and g().
Boolean(value) == [kind |-> "Boolean", Value |-> value]

NoneLiteral == [kind |-> "NoneLiteral"]

NoneKinds == {"None", "name None", "unbound parameter", "Array read", "Tuple read", "if"}

LiteralKinds == {"None", "1", "2", "a", "b", "True", "False"}

OperandOf(k) ==
    CASE k = "None" -> NoneLiteral
      [] k = "name None" -> Identifier("None")
      [] k = "unbound parameter" -> CallExpression(Identifier("f"), <<>>)
      [] k = "Array read" ->
            IndexExpression(ArrayLiteral(<<IntegerLiteral(1)>>), IntegerLiteral(1))
      [] k = "Tuple read" ->
            IndexExpression(TupleLiteral(<<IntegerLiteral(1)>>), IntegerLiteral(1))
      [] k = "if" -> CallExpression(Identifier("g"), <<>>)
      [] k = "1" -> IntegerLiteral(1)
      [] k = "2" -> IntegerLiteral(2)
      [] k = "a" -> StringLiteral("a")
      [] k = "b" -> StringLiteral("b")
      [] k = "True" -> Boolean(TRUE)
      [] k = "False" -> Boolean(FALSE)

ComparePrelude ==
    << FunctionDefinition("f", <<Parameter("p")>>,
                          BlockStatement(<<ReturnStatement(Identifier("p"))>>)),
       FunctionDefinition("g", <<>>,
                          BlockStatement(<<IfStatement(Boolean(FALSE),
                              BlockStatement(<<ExpressionStatement(IntegerLiteral(1))>>))>>)) >>

CompareProgram(lk, operator, rk) ==
    Program(ComparePrelude
            \o <<Mark(ExpressionStatement(
                        InfixExpression(Mark(OperandOf(lk), <<lk, 1>>), operator,
                                        Mark(OperandOf(rk), <<rk, 2>>))),
                      <<operator, 0>>)>>)

IsCompareProgram(program) ==
    \E lk \in NoneKinds \cup LiteralKinds, rk \in LiteralKinds, operator \in {"==", "!="} :
        program = CompareProgram(lk, operator, rk)

\* Programs for index reads: q = [10, 20, ..] or q = (10, 20, ..), then q[i],
\* a negative i written as the prefix expression -(-i).
SequenceKinds == {"Array", "Tuple"}

ElementLiterals(n) == [j \in 1..n |-> IntegerLiteral(10 * j)]

SequenceLiteral(kind, n) ==
    IF kind = "Array" THEN ArrayLiteral(ElementLiterals(n))
    ELSE TupleLiteral(ElementLiterals(n))

IndexLiteral(i) ==
    IF i < 0 THEN PrefixExpression("-", IntegerLiteral(-i)) ELSE IntegerLiteral(i)

IndexProgram(kind, n, i) ==
    Program(<<AssignStatement(Identifier("q"), SequenceLiteral(kind, n)),
              Mark(ExpressionStatement(IndexExpression(Identifier("q"), IndexLiteral(i))),
                   <<kind, i>>)>>)

IsIndexProgram(program) ==
    \E kind \in SequenceKinds, n \in 0..MaxElements :
        \E i \in -(n + 1)..(n + 1) : program = IndexProgram(kind, n, i)

\* Programs for errors in child expressions: grim ValueError, spell boom():
\* raise ValueError("bad"), spell f(p): return 1, then one statement whose
\* child expression fails (an unbound name or the call boom()): the child is
\* the condition of an if, the callee of a call or the argument of f.
FailKinds == {"Error", "CustomError"}

ShortForms == {"if", "callee", "argument"}

ShortPrelude ==
    << ErrorGrimoire("ValueError"),
       FunctionDefinition("boom", <<>>, BlockStatement(<<RaiseInstance("ValueError")>>)),
       FunctionDefinition("f", <<Parameter("p")>>,
                          BlockStatement(<<Mark(ReturnStatement(IntegerLiteral(1)),
                                                <<"guarded", 0>>)>>)) >>

FailingChild(k) ==
    Mark(IF k = "Error" THEN Identifier("undefinedName")
         ELSE CallExpression(Identifier("boom"), <<>>),
         <<"failing", 0>>)

ShortStatement(k, form) ==
    Mark(CASE form = "if" ->
                IfStatement(FailingChild(k),
                            BlockStatement(<<Mark(ExpressionStatement(IntegerLiteral(1)),
                                                  <<"guarded", 0>>)>>))
           [] form = "callee" ->
                ExpressionStatement(CallExpression(FailingChild(k), <<IntegerLiteral(1)>>))
           [] form = "argument" ->
                ExpressionStatement(CallExpression(Identifier("f"), <<FailingChild(k)>>)),
         <<form, 0>>)

ShortProgram(k, form) == Program(ShortPrelude \o <<ShortStatement(k, form)>>)

IsShortProgram(program) ==
    \E k \in FailKinds, form \in ShortForms : program = ShortProgram(k, form)

\* Programs for errors in init and in a module body: grim G with an init
\* whose body fails, then the call G(); or the import of a module whose body
\* fails.
UnwindForms == {"instantiate", "import"}

UnwindProgram(k, form) ==
    IF form = "instantiate"
    THEN Program(<<GrimoireDefinition("G", NoNode,
                       FunctionDefinition("init", <<Parameter("self")>>,
                                          BlockStatement(<<FailingStatement(k)>>)),
                       <<>>, FALSE),
                   Mark(ExpressionStatement(CallExpression(Identifier("G"), <<>>)),
                        <<form, 0>>)>>)
    ELSE Program(<<Mark(ImportStatement(k, ""), <<form, 0>>)>>)

IsUnwindProgram(program) ==
    \E k \in FailKinds, form \in UnwindForms : program = UnwindProgram(k, form)

\* Programs for sentinels in a callee: spell f(): stop (or skip), grim G
\* with the same body as method m, g = G(); then the call f() or g.m(), at
\* top level or as the first statement of the body of
\* for v in [1, 2]: <call>; count = v.
SentinelKinds == {"stop", "skip"}

CalleeKinds == {"Function", "BoundMethod"}

CallContexts == {"top level", "for"}

SentinelBody(k) ==
    BlockStatement(<<IF k = "stop" THEN [kind |-> "StopStatement"]
                     ELSE [kind |-> "SkipStatement"]>>)

SentinelPrelude(k) ==
    << FunctionDefinition("f", <<>>, SentinelBody(k)),
       GrimoireDefinition("G", NoNode, NoNode,
                          <<MethodDefinition("m", <<>>, SentinelBody(k), FALSE)>>, FALSE),
       Instantiate("g", "G") >>

CrossingCall(callee) ==
    Mark(CallExpression(IF callee = "Function" THEN Identifier("f")
                        ELSE DotExpression(Identifier("g"), "m"),
                        <<>>),
         <<"crossing", 0>>)

SentinelStatement(callee, context) ==
    Mark(IF context = "top level" THEN ExpressionStatement(CrossingCall(callee))
         ELSE ForStatement(Identifier("v"),
                           ArrayLiteral(<<IntegerLiteral(1), IntegerLiteral(2)>>),
                           BlockStatement(<<ExpressionStatement(CrossingCall(callee)),
                                            AssignStatement(Identifier("count"),
                                                            Identifier("v"))>>)),
         <<"sentinel", 0>>)

SentinelProgram(k, callee, context) ==
    Program(SentinelPrelude(k) \o <<SentinelStatement(callee, context)>>)

IsSentinelProgram(program) ==
    \E k \in SentinelKinds, callee \in CalleeKinds, context \in CallContexts :
        program = SentinelProgram(k, callee, context)

\* Programs for super: grim A with m(): return 1, grim B(A) with
\* m(): return super.m(), grim C(B) without methods, an instance c of B or
\* of C, then the call c.m().  The name super is unbound, or bound by the
\* statement super = None at the start of the program.
SuperBindings == {"unbound", "bound"}

InstanceClasses == {"B", "C"}

SuperProgram(binding, class) ==
    Program((IF binding = "bound"
             THEN <<AssignStatement(Identifier("super"), NoneLiteral)>> ELSE <<>>)
            \o << GrimoireDefinition("A", NoNode, NoNode,
                     <<MethodDefinition("m", <<>>,
                         BlockStatement(<<Mark(ReturnStatement(IntegerLiteral(1)),
                                               <<"A.m", 0>>)>>), FALSE)>>, FALSE),
                  GrimoireDefinition("B", Identifier("A"), NoNode,
                     <<MethodDefinition("m", <<>>,
                         BlockStatement(<<Mark(ReturnStatement(
                             CallExpression(DotExpression(Identifier("super"), "m"), <<>>)),
                                               <<"B.m", 0>>)>>), FALSE)>>, FALSE),
                  GrimoireDefinition("C", Identifier("B"), NoNode, <<>>, FALSE),
                  Instantiate("c", class),
                  Mark(ExpressionStatement(
                         CallExpression(DotExpression(Identifier("c"), "m"), <<>>)),
                       <<"super", 0>>) >>)

IsSuperProgram(program) ==
    \E binding \in SuperBindings, class \in InstanceClasses :
        program = SuperProgram(binding, class)

\* Programs for aliases of an incremented name: x = 5, then x is handed on
\* (y = x, a = [x], g.v = x for an instance g, y = ++x) and one of ++x, --x,
\* x++, x--, x += 1 follows; or the operation is the body of spell f(),
\* which is called, so that x is found in the outer environment only.
AliasKinds == {"alias y", "alias a", "alias g.v", "alias ++x", "outer x"}

AliasOps == <<"++x", "--x", "x++", "x--", "x += 1">>

AliasOperation(i) ==
    ExpressionStatement(
        CASE i = 1 -> PrefixExpression("++", Identifier("x"))
          [] i = 2 -> PrefixExpression("--", Identifier("x"))
          [] i = 3 -> PostfixExpression(Identifier("x"), "++")
          [] i = 4 -> PostfixExpression(Identifier("x"), "--")
          [] i = 5 -> InfixExpression(Identifier("x"), "+=", IntegerLiteral(1)))

AliasPrelude(k, i) ==
    CASE k = "alias y" -> <<AssignStatement(Identifier("y"), Identifier("x"))>>
      [] k = "alias a" ->
            <<AssignStatement(Identifier("a"), ArrayLiteral(<<Identifier("x")>>))>>
      [] k = "alias g.v" ->
            << GrimoireDefinition("G", NoNode, NoNode, <<>>, FALSE),
               Instantiate("g", "G"),
               AssignStatement(DotExpression(Identifier("g"), "v"), Identifier("x")) >>
      [] k = "alias ++x" ->
            <<AssignStatement(Identifier("y"), PrefixExpression("++", Identifier("x")))>>
      [] k = "outer x" ->
            <<FunctionDefinition("f", <<>>, BlockStatement(<<AliasOperation(i)>>))>>

AliasProgram(k, i) ==
    Program(<<AssignStatement(Identifier("x"), IntegerLiteral(5))>>
            \o AliasPrelude(k, i)
            \o <<Mark(IF k = "outer x"
                      THEN ExpressionStatement(CallExpression(Identifier("f"), <<>>))
                      ELSE AliasOperation(i),
                      <<k, i>>)>>)

IsAliasProgram(program) ==
    \E k \in AliasKinds, i \in 1..Len(AliasOps) : program = AliasProgram(k, i)

\* Programs for negation: !v or not v for a literal v.
NegationOperators == {"!", "not"}

NegatedKinds == {"True", "False", "None", "empty String", "String", "empty Array",
                 "Array", "empty Tuple", "Tuple", "Integer"}

NegatedOperand(k) ==
    CASE k = "True" -> Boolean(TRUE)
      [] k = "False" -> Boolean(FALSE)
      [] k = "None" -> NoneLiteral
      [] k = "empty String" -> StringLiteral("")
      [] k = "String" -> StringLiteral("a")
      [] k = "empty Array" -> ArrayLiteral(<<>>)
      [] k = "Array" -> ArrayLiteral(<<IntegerLiteral(1)>>)
      [] k = "empty Tuple" -> TupleLiteral(<<>>)
      [] k = "Tuple" -> TupleLiteral(<<IntegerLiteral(1)>>)
      [] k = "Integer" -> IntegerLiteral(0)

NegationProgram(operator, k) ==
    Program(<<Mark(ExpressionStatement(
                     PrefixExpression(operator, Mark(NegatedOperand(k), <<"negated", 0>>))),
                   <<operator, 0>>)>>)

IsNegationProgram(program) ==
    \E operator \in NegationOperators, k \in NegatedKinds :
        program = NegationProgram(operator, k)

(***************************************************************************)
(* The evaluator as a state machine: evalProgram's loop over the program's *)
(* statements in a fresh global environment, one statement per step.       *)
(***************************************************************************)
EvalInit ==
    /\ l = IdleLexer
    /\ tokens = <<>>
    /\ \/ IsBlockProgram(prog)
       \/ IsAttemptProgram(prog)
       \/ IsUnpackProgram(prog)
       \/ IsIncDecProgram(prog)
       \/ IsInheritProgram(prog)
       \/ IsMemberProgram(prog)
       \/ IsLookupProgram(prog)
       \/ IsNestedProgram(prog)
       \/ IsCompareProgram(prog)
       \/ IsIndexProgram(prog)
       \/ IsShortProgram(prog)
       \/ IsUnwindProgram(prog)
       \/ IsSentinelProgram(prog)
       \/ IsSuperProgram(prog)
       \/ IsAliasProgram(prog)
       \/ IsNegationProgram(prog)
    /\ store = NewStore
    /\ outcome = Nil
    /\ pc = 1
    /\ phase = "eval"
    /\ session = 1

EvalStatement ==
    /\ phase = "eval"
    /\ pc <= Len(prog.Statements)
    /\ \E r \in {programStep(prog.Statements[pc], GlobalEnv, store)} :
         IF r.st.fatal
         THEN /\ store' = [store EXCEPT !.fatal = TRUE]
              /\ outcome' = Nil
              /\ phase' = "fatal"
         ELSE /\ store' = r.st
              /\ outcome' = r.o
              /\ phase' = IF r.returns \/ pc = Len(prog.Statements) THEN "done" ELSE "eval"
    /\ pc' = pc + 1
    /\ UNCHANGED <<l, tokens, prog, session>>

EvalNext == EvalStatement

SpecEval == EvalInit /\ [][EvalNext]_vars

(***************************************************************************)
(* Sessions with imports: programs of up to MaxImports import statements,  *)
(* and InitEvalContext, which starts the next session of the process: the  *)
(* same program is evaluated again in a new global environment.            *)
(* importedFiles is a package variable and lives on.                       *)
(***************************************************************************)
ImportPaths == {"m", "n", "bad", "gone"}

ImportAliases == {"", "A", "B"}

ImportShapes == UNION {[1..n -> ImportPaths \X ImportAliases] : n \in 1..MaxImports}

ImportProgram(shape) ==
    Program([i \in 1..Len(shape) |-> ImportStatement(shape[i][1], shape[i][2])])

ImportInit ==
    /\ l = IdleLexer
    /\ tokens = <<>>
    /\ \E shape \in ImportShapes : prog = ImportProgram(shape)
    /\ store = NewStore
    /\ outcome = Nil
    /\ pc = 1
    /\ phase = "eval"
    /\ session = 1

InitEvalContext ==
    /\ phase = "done"
    /\ session < MaxSessions
    /\ store' = [NewStore EXCEPT !.imported = store.imported]
    /\ outcome' = Nil
    /\ pc' = 1
    /\ phase' = "eval"
    /\ session' = session + 1
    /\ UNCHANGED <<l, tokens, prog>>

ImportNext == EvalStatement \/ InitEvalContext

SpecImport == ImportInit /\ [][ImportNext]_vars

(***************************************************************************)
(* Environments on their own: any sequence of NewEnclosedEnvironment, Set  *)
(* and Get calls on the environments created so far.  prog holds the call  *)
(* made last, outcome the Object it returned.                              *)
(***************************************************************************)
EnvNames == {"x", "y"}

EnvValues == {TrueObj, FalseObj}

EnvInit ==
    /\ l = IdleLexer
    /\ tokens = <<>>
    /\ prog = NoNode
    /\ store = NewStore
    /\ outcome = Nil
    /\ pc = 0
    /\ phase = "env"
    /\ session = 0

CallNewEnclosedEnvironment ==
    /\ phase = "env"
    /\ Len(store.envs) < MaxEnvs
    /\ \E outer \in 1..Len(store.envs) :
          /\ store' = NewEnclosedEnvironment(store, outer).st
          /\ prog' = [kind |-> "NewEnclosedEnvironment", outer |-> outer]
    /\ outcome' = Nil
    /\ UNCHANGED <<l, tokens, pc, phase, session>>

CallSet ==
    /\ phase = "env"
    /\ \E env \in 1..Len(store.envs), name \in EnvNames, val \in EnvValues :
          /\ store' = Set(store, env, name, val)
          /\ prog' = [kind |-> "Set", env |-> env, name |-> name, val |-> val]
          /\ outcome' = val
    /\ UNCHANGED <<l, tokens, pc, phase, session>>

CallGet ==
    /\ phase = "env"
    /\ \E env \in 1..Len(store.envs), name \in EnvNames :
          \E r \in {Get(store, env, name)} :
              /\ prog' = [kind |-> "Get", env |-> env, name |-> name, ok |-> r.ok]
              /\ outcome' = r.obj
    /\ UNCHANGED <<l, tokens, store, pc, phase, session>>

EnvNext == CallNewEnclosedEnvironment \/ CallSet \/ CallGet

SpecEnv == EnvInit /\ [][EnvNext]_vars

(***************************************************************************)
(* Reading the trace                                                       *)
(***************************************************************************)
Errors == {"ERROR", "CUSTOM_ERROR"}

\* Indices of the trace entries reported under a position named name
Entries(name) == {k \in 1..Len(store.trace) : store.trace[k].pos[1] = name}

GlobalValue(name) == store.heap[store.envs[GlobalEnv].store[name]].Value

\* C1: in a while loop, whichever body statement yields the signal, a Stop is
\* followed by the end of the loop with None (no further condition or body
\* evaluation), a Skip is followed by the next evaluation of the condition,
\* and a ReturnValue or an error is followed by the end of the loop with that
\* very Object as the result of the while statement.
C1_WhileSignals ==
    \A w \in Entries("while") : \A k \in Entries("body") :
        LET e == store.trace[k]
            next == store.trace[k + 1]
        IN  /\ e.t = "STOP" => next.pos[1] = "while" /\ next.t = "NONE"
            /\ e.t = "SKIP" => next.pos[1] = "cond"
            /\ e.t \in {"RETURN_VALUE"} \cup Errors =>
                    next.pos[1] = "while" /\ next.o = e.o

\* C2: in every statement block (BlockStatement, while body, for body,
\* program), a statement that yields an Error or CustomError is the last
\* statement of the block evaluated in that pass, and the error is the
\* result of the block.
C2_ErrorEndsBlock ==
    \A k \in Entries("body") :
        LET e == store.trace[k] IN
        e.t \in Errors =>
            IF k < Len(store.trace)
            THEN /\ store.trace[k + 1].pos[1] \in {"while", "for", "block"}
                 /\ store.trace[k + 1].o = e.o
            ELSE outcome = e.o

\* The attempt statement of the program, once it has been evaluated
AttemptNode == prog.Statements[Len(AttemptPrelude) + 1]

TryEntry == CHOOSE k \in Entries("try") : TRUE

\* The result of the try/ensnare part: the handler's result if a handler
\* ran, the error of a guard whose evaluation failed, else the try result
BeforeResolve ==
    IF Entries("handler") # {}
    THEN store.trace[CHOOSE h \in Entries("handler") : TRUE].o
    ELSE IF \E g \in Entries("guard") : store.trace[g].t \in Errors
    THEN store.trace[CHOOSE g \in Entries("guard") : store.trace[g].t \in Errors].o
    ELSE store.trace[TryEntry].o

C4_BuiltinErrorReachesEnsnare ==
    \A a \in Entries("attempt") :
        (store.trace[TryEntry].t = "ERROR" /\ Len(AttemptNode.EnsnareClauses) >= 1)
            => \E g \in Entries("guard") : store.trace[g].pos[2] = 1

\* Whether the guard reported at trace index g catches the CustomError err:
\* a Grimoire that is the error's own grimoire, a String equal to its name
Catches(g, err) ==
    \/ /\ store.trace[g].t = "GRIMOIRE"
       /\ store.heap[err].ErrorType = store.trace[g].o
    \/ /\ store.trace[g].t = "STRING"
       /\ store.heap[store.trace[g].o].Value = store.heap[err].Name

\* attempt: raise ValueError("bad") ensnare ValueError: x = "caught"
\* resolve: y = "done"
IsScenarioAttempt ==
    LET raise == AttemptNode.TryBlock.Statements[1]
        clauses == AttemptNode.EnsnareClauses
    IN  /\ raise.kind = "RaiseStatement"
        /\ raise.Error.kind = "CallExpression"
        /\ raise.Error.Function.Value = "ValueError"
        /\ Len(clauses) = 1
        /\ clauses[1].Condition.kind = "Identifier"
        /\ clauses[1].Condition.Value = "ValueError"
        /\ IsNode(AttemptNode.ResolveBlock)
        /\ AttemptNode.ResolveBlock.Statements[1].kind = "AssignStatement"

UnpackStep ==
    /\ phase = "eval"
    /\ pc = Len(UnpackPrelude) + 1
    /\ pc <= Len(prog.Statements)
    /\ prog.Statements[pc].kind = "AssignStatement"
    /\ prog.Statements[pc].Name.kind \in PatternKinds
    /\ pc' = pc + 1

UnpackTargets == prog.Statements[pc].Name.Elements

\* The right-hand side as it evaluates in the state before the step
RightHandSide == Eval(prog.Statements[pc].Value, GlobalEnv, store)

RightIsSequence == Type(RightHandSide.st, RightHandSide.o) \in {"TUPLE", "ARRAY"}

\* Element i of the right-hand side before any target is assigned
RightElement(i) == RightHandSide.st.heap[RightHandSide.o].Elements[i]

RightCount == Len(RightHandSide.st.heap[RightHandSide.o].Elements)

\* What a target writes: <<variable, 0>>, <<"arr", slot>>, or a nested pattern
Location(target) ==
    CASE target.kind = "Identifier" -> <<target.Value, 0>>
      [] target.kind = "IndexExpression" -> <<"arr", target.Index.Value + 1>>
      [] OTHER -> <<"nested", 0>>

\* The Object at a location after the step
After(loc) ==
    IF loc[1] = "arr"
    THEN store'.heap[store.envs[GlobalEnv].store["arr"]].Elements[loc[2]]
    ELSE store'.envs[GlobalEnv].store[loc[1]]

LastWriter(i) ==
    \A j \in (i + 1)..Len(UnpackTargets) :
        Location(UnpackTargets[j]) # Location(UnpackTargets[i])

\* Every target not written again by a later target holds element i of the
\* right-hand side; a nested pattern (c, d) holds the elements of element i
TargetsReceiveSnapshot ==
    \A i \in 1..Len(UnpackTargets) :
        LastWriter(i) =>
            IF Location(UnpackTargets[i])[1] = "nested"
            THEN /\ After(<<"c", 0>>) = RightHandSide.st.heap[RightElement(i)].Elements[1]
                 /\ After(<<"d", 0>>) = RightHandSide.st.heap[RightElement(i)].Elements[2]
            ELSE After(Location(UnpackTargets[i])) = RightElement(i)

\* No binding and no Object of the state before the step has changed
NoTargetChanged ==
    /\ store'.envs = store.envs
    /\ \A o \in 1..Len(store.heap) : store'.heap[o] = store.heap[o]

CountsDiffer == RightIsSequence /\ RightCount # Len(UnpackTargets)

\* A nested pattern (c, d) faces a sequence that has not two elements
NestedCountsDiffer ==
    /\ RightIsSequence
    /\ RightCount = Len(UnpackTargets)
    /\ \E i \in 1..Len(UnpackTargets) :
        /\ Location(UnpackTargets[i])[1] = "nested"
        /\ Type(RightHandSide.st, RightElement(i)) \in {"TUPLE", "ARRAY"}
        /\ Len(RightHandSide.st.heap[RightElement(i)].Elements) # 2

HasKind(i, k) ==
    /\ i \in 1..Len(prog.Statements)
    /\ "pos" \in DOMAIN prog.Statements[i]
    /\ prog.Statements[i].pos[1] = k

IsBound(s, name) == name \in DOMAIN s.envs[GlobalEnv].store

Binding(s, name) == s.envs[GlobalEnv].store[name]

IsInteger(s, name) == IsBound(s, name) /\ Type(s, Binding(s, name)) = "INTEGER"

ValueOf(s, name) == s.heap[Binding(s, name)].Value

\* No binding and no Object that existed in s is different in t
NothingChanged(s, t) ==
    /\ t.envs = s.envs
    /\ \A o \in 1..Len(s.heap) : t.heap[o] = s.heap[o]

OpStep == phase = "eval" /\ \E k \in OpKinds : HasKind(pc, k)

OpKind == prog.Statements[pc].pos[1]

Delta(k) == IF k \in {"++x", "x++", "y=++x", "y=x++"} THEN 1
            ELSE IF k = "z=x" THEN 0 ELSE 0 - 1

Returned(k, v) == IF k \in {"++x", "--x", "y=++x"} THEN v + Delta(k) ELSE v

\* One statement that applies an operator to x
OpStepAsClaimed ==
    IF IsInteger(store, "x")
    THEN /\ IsInteger(store', "x")
         /\ ValueOf(store', "x") = ValueOf(store, "x") + Delta(OpKind)
         /\ Type(store', outcome') = "INTEGER"
         /\ store'.heap[outcome'].Value = Returned(OpKind, ValueOf(store, "x"))
         /\ OpKind \in {"y=++x", "y=x++"} =>
                /\ IsInteger(store', "y")
                /\ ValueOf(store', "y") = Returned(OpKind, ValueOf(store, "x"))
    ELSE OpKind # "z=x" =>
         /\ Type(store', outcome') = "ERROR"
         /\ NothingChanged(store, store')

InitialValue == prog.Statements[1].Value.Value

\* `++x; --x` and `y = x++; z = x` after x was bound to an Integer
OpScenarios ==
    HasKind(1, "integer") /\ pc = 4 =>
        /\ HasKind(2, "++x") /\ HasKind(3, "--x") =>
                ValueOf(store, "x") = InitialValue
        /\ HasKind(2, "y=x++") /\ HasKind(3, "z=x") =>
                ValueOf(store, "y") = InitialValue /\ ValueOf(store, "z") = InitialValue + 1

\* C11: for x bound to an Integer, prefix ++x / --x stores and returns the
\* new value and postfix x++ / x-- returns the old value and stores the new
\* one; `++x; --x` leaves x's value unchanged and after `y = x++; z = x`
\* y is the initial value and z the initial value plus one; applied to an
\* unbound name or to a binding that is not an Integer the operators
\* return an error and change no binding.
C11_IncrementDecrement ==
    /\ [][OpStep => OpStepAsClaimed]_vars
    /\ []OpScenarios

C11_Witness ==
    /\ HasKind(1, "integer") /\ HasKind(2, "y=x++") /\ HasKind(3, "z=x") /\ pc = 4
    /\ ValueOf(store, "y") = InitialValue
    /\ ValueOf(store, "z") = InitialValue + 1

\* The trace entries of name all have a type in types, and there is one
Yields(name, types) ==
    /\ Entries(name) # {}
    /\ \A k \in Entries(name) : store.trace[k].t \in types

MethodNamesOf(definition) ==
    {definition.Methods[i].Name : i \in 1..Len(definition.Methods)}

\* P has an abstract method that G's own definition does not override
LeavesAbstract(parent, child) ==
    \E i \in 1..Len(parent.Methods) :
        /\ parent.Methods[i].IsArcaneSpell
        /\ parent.Methods[i].Name \notin MethodNamesOf(child)

Instances == {o \in 1..Len(store.heap) : store.heap[o].t = "INSTANCE"}

Callee == Binding(store, prog.Statements[3].Expression.Function.Value)

\* C12: defining a non-arcane grimoire G that inherits from P fails with an
\* error and leaves the name G unbound whenever P's method table has an
\* abstract method that G's own definition does not override; calling an
\* arcane grimoire returns an error, creates no Instance and does not run
\* init.
C12_AbstractAndArcane ==
    HasKind(1, "parent") =>
        /\ pc >= 3 /\ ~prog.Statements[2].IsArcane
                   /\ LeavesAbstract(prog.Statements[1], prog.Statements[2]) =>
                /\ Yields("child", {"ERROR"})
                /\ ~IsBound(store, "G")
        /\ pc >= 4 /\ IsBound(store, prog.Statements[3].Expression.Function.Value)
                   /\ store.heap[Callee].IsArcane =>
                /\ Yields("call", {"ERROR"})
                /\ Instances = {}
                /\ Entries("init") = {}

\* The last statement of a member-access program, once it was evaluated
Probed == HasKind(Len(prog.Statements), "probe") /\ pc > Len(prog.Statements)

ProbeExpression == prog.Statements[Len(prog.Statements)].Expression

Member == prog.Statements[1].Methods[1].Body.Statements[1].ReturnValue.Right

TargetName == IF ProbeExpression.kind = "CallExpression"
              THEN ProbeExpression.Arguments[1].Value
              ELSE ProbeExpression.Left.Value

\* The Instance that is `self` where the access is evaluated, Nil if none
AccessingSelf ==
    IF ProbeExpression.kind = "CallExpression"
          /\ IsBound(store, ProbeExpression.Function.Left.Value)
    THEN Binding(store, ProbeExpression.Function.Left.Value)
    ELSE Nil

GrimoireOf(instance) == store.heap[instance].Grimoire

\* The rule of the specification for an access to a method named member of
\* target from a place whose self is accessor
MayAccess(accessor, target, member) ==
    CASE member = "__secret" ->
            accessor # Nil /\ GrimoireOf(accessor) = GrimoireOf(target)
      [] member = "_helper" ->
            accessor # Nil /\ inheritsFrom(store, GrimoireOf(accessor), GrimoireOf(target))
      [] OTHER -> TRUE

\* C13: member access inst.m, m a method of inst's grimoire, returns a
\* private method (`__` name) as a BoundMethod only when self in the
\* accessing environment is an Instance of the very grimoire of inst, a
\* protected method (`_` name) only when the grimoire of that self is
\* inst's grimoire or has it as an ancestor; in every other case the access
\* yields an error and no BoundMethod.
C13_Visibility ==
    Probed /\ IsBound(store, TargetName) /\ Entries("access") # {} =>
        \A k \in Entries("access") :
            IF MayAccess(AccessingSelf, Binding(store, TargetName), Member)
            THEN store.trace[k].t = "BOUND_METHOD"
            ELSE store.trace[k].t = "ERROR"

\* The last statement of a lookup program, once it was evaluated
LookedUp == HasKind(Len(prog.Statements), "member") /\ pc > Len(prog.Statements)

LookupName == prog.Statements[Len(prog.Statements)].Expression.Right

\* The fields of the Instance bound to b: the names bound in its own environment
Fields == store.envs[store.heap[Binding(store, "b")].Env].store

MethodsOf(instance) == store.heap[GrimoireOf(instance)].Methods

\* C14: member access x.y on an Instance x yields the value of field y if
\* the instance has a field y, otherwise a BoundMethod for method y of its
\* grimoire, otherwise an error; a name bound only in the grimoire's
\* defining environment or in the global environment is never returned as
\* a member and never shadows a method.
C14_FieldThenMethod ==
    LookedUp =>
        \A k \in Entries("access") :
            IF LookupName \in DOMAIN Fields
            THEN store.trace[k].o = Fields[LookupName]
            ELSE IF LookupName \in DOMAIN MethodsOf(Binding(store, "b"))
            THEN store.trace[k].t = "BOUND_METHOD"
            ELSE store.trace[k].t = "ERROR"

\* The next step evaluates a top-level import statement
ImportStep ==
    /\ phase = "eval"
    /\ pc \in 1..Len(prog.Statements)
    /\ prog.Statements[pc].kind = "ImportStatement"

\* The paths handed to os.ReadFile in this session
ReadPaths == {store.reads[i] : i \in 1..Len(store.reads)}

\* C15: an import statement for a path that was already imported in the
\* session does not read or evaluate the file again, changes no binding in
\* any environment and returns None; no file is read twice in a session.
C15_ReimportIsNoOp ==
    /\ [][ImportStep /\ prog.Statements[pc].FilePath \in ReadPaths =>
             /\ store' = store
             /\ Type(store', outcome') = "NONE"]_vars
    /\ [](\A i, j \in 1..Len(store.reads) : store.reads[i] = store.reads[j] => i = j)

C15_Witness ==
    /\ session = 1 /\ pc = 3 /\ phase = "done"
    /\ prog.Statements[1].FilePath = "m" /\ prog.Statements[2].FilePath = "m"
    /\ store.reads = <<"m">>
    /\ IsBound(store, "Spell")

\* C16: after an `import "p" as A` statement that returns without an
\* error, A is bound in the importing environment to a Namespace that wraps
\* the environment p's module was evaluated in, also when p was imported
\* before under another alias, without alias or from another environment.
C16_AliasIsBound ==
    [][ImportStep /\ IsNode(prog.Statements[pc].Alias) /\ ~isError(store', outcome') =>
          /\ IsBound(store', prog.Statements[pc].Alias.Value)
          /\ Type(store', Binding(store', prog.Statements[pc].Alias.Value)) = "NAMESPACE"
          /\ store'.envs[store'.heap[Binding(store', prog.Statements[pc].Alias.Value)].Env].outer
                = GlobalEnv]_vars

\* C17: a new session starts with an empty call stack and an empty set of
\* imported files, so the session reads again a file it imports although an
\* earlier session imported it.
C17_SessionStartsClean ==
    session > 1 =>
        /\ pc = 1 => store.callStack = <<>> /\ store.imported = {}
        /\ pc > 1 => prog.Statements[1].FilePath \in ReadPaths

\* C18: a runtime error records the position of the offending node and the
\* call stack at its creation: created in the body of a function called at
\* nesting depth k it carries a stack trace of k entries.
C18_ErrorCarriesStack ==
    HasKind(Len(prog.Statements), "nested") /\ pc > Len(prog.Statements) =>
        /\ Type(store, outcome) = "ERROR"
        /\ Len(store.heap[outcome].StackTrace) = Len(prog.Statements) - 1
        /\ store.heap[outcome].Position # NoPosition

(***************************************************************************)
(* Comparisons                                                             *)
(***************************************************************************)
Compared ==
    /\ pc > Len(prog.Statements)
    /\ \/ HasKind(Len(prog.Statements), "==")
       \/ HasKind(Len(prog.Statements), "!=")

Comparison == prog.Statements[Len(prog.Statements)].Expression

LeftKind == Comparison.Left.pos[1]

RightKind == Comparison.Right.pos[1]

\* C19: every None the evaluator produces (the None literal, the name None,
\* a parameter left unbound by the call, an out-of-range Array or Tuple read,
\* an if with no taken branch) compares == None as true and != None as false.
C19_NoneEqualsNone ==
    Compared /\ LeftKind \in NoneKinds /\ RightKind = "None" =>
        outcome = nativeBoolToBooleanObject(Comparison.Operator = "==")

\* C20: == and != on Integer, String, Boolean and None operands yield a
\* Boolean and never an error: operands of the same type compare by value,
\* operands of two different types compare unequal.
C20_EqualityIsTotal ==
    Compared /\ LeftKind \in LiteralKinds /\ RightKind \in LiteralKinds =>
        /\ Type(store, outcome) = "BOOLEAN"
        /\ outcome = nativeBoolToBooleanObject(
                         (Comparison.Operator = "==") = (LeftKind = RightKind))

(***************************************************************************)
(* Index reads                                                             *)
(***************************************************************************)
IndexRead ==
    /\ pc > Len(prog.Statements)
    /\ \E kind \in SequenceKinds : HasKind(Len(prog.Statements), kind)

ReadLength == Len(prog.Statements[1].Value.Elements)

ReadIndex == prog.Statements[Len(prog.Statements)].pos[2]

ElementValues(s, o) == [j \in 1..Len(s.heap[o].Elements) |-> s.heap[s.heap[o].Elements[j]].Value]

IndexReadAsClaimed ==
    /\ IF -ReadLength <= ReadIndex /\ ReadIndex < ReadLength
       THEN /\ Type(store, outcome) = "INTEGER"
            /\ store.heap[outcome].Value
                  = 10 * ((((ReadIndex % ReadLength) + ReadLength) % ReadLength) + 1)
       ELSE Type(store, outcome) = "NONE"
    /\ ElementValues(store, Binding(store, "q")) = [j \in 1..ReadLength |-> 10 * j]

\* C21: an Integer-index read of an Array or a Tuple of length n returns the
\* element at ((i mod n) + n) mod n when -n <= i < n and None otherwise, is
\* never an error and leaves the sequence as it was.
C21_IndexReads == IndexRead => IndexReadAsClaimed

(***************************************************************************)
(* Environments                                                            *)
(***************************************************************************)
\* The environments from env outward, env first
RECURSIVE Chain(_, _)
Chain(s, env) ==
    IF s.envs[env].outer = 0 THEN <<env>> ELSE <<env>> \o Chain(s, s.envs[env].outer)

OnChain(s, env, e) == \E i \in 1..Len(Chain(s, env)) : Chain(s, env)[i] = e

Holds(s, e, name) == name \in DOMAIN s.envs[e].store

\* The environments on env's chain that hold name, nearest first
Holders(s, env, name) == SelectSeq(Chain(s, env), LAMBDA e : Holds(s, e, name))

\* Get has returned the binding of the nearest holder, or not found
GetAsClaimed ==
    prog.kind = "Get" =>
        IF Holders(store, prog.env, prog.name) = <<>>
        THEN ~prog.ok
        ELSE /\ prog.ok
             /\ outcome = store.envs[Holders(store, prog.env, prog.name)[1]].store[prog.name]

\* Set has written the value into the store of its own environment only
SetAsClaimed ==
    prog'.kind = "Set" =>
        /\ Holds(store', prog'.env, prog'.name)
        /\ store'.envs[prog'.env].store[prog'.name] = prog'.val
        /\ Get(store', prog'.env, prog'.name) = [obj |-> prog'.val, ok |-> TRUE]
        /\ \A e \in 1..Len(store.envs), name \in EnvNames :
              /\ e # prog'.env \/ name # prog'.name =>
                    /\ Holds(store', e, name) = Holds(store, e, name)
                    /\ Holds(store, e, name) =>
                          store'.envs[e].store[name] = store.envs[e].store[name]
              /\ ~OnChain(store, e, prog'.env) =>
                    Get(store', e, name) = Get(store, e, name)

\* C22: Get on e returns the value most recently Set in the nearest
\* environment on e's outer chain that holds the name and reports not found
\* only if none holds it; Set on e writes only e's own store, so what Get
\* returns on e's outer environments and on its siblings does not change.
C22_GetAndSet == [][SetAsClaimed]_vars /\ []GetAsClaimed

\* Get on an environment that does not hold x has returned the x of the
\* global environment while a sibling environment holds another x
C22_Witness ==
    /\ prog.kind = "Get" /\ prog.name = "x" /\ prog.ok
    /\ Len(store.envs) = MaxEnvs
    /\ Len(Chain(store, prog.env)) > 1
    /\ ~Holds(store, prog.env, "x")
    /\ Holds(store, GlobalEnv, "x")
    /\ \E e \in 1..Len(store.envs) :
          /\ ~OnChain(store, prog.env, e)
          /\ Holds(store, e, "x")
          /\ store.envs[e].store["x"] # outcome

(***************************************************************************)
(* Errors in child expressions                                             *)
(***************************************************************************)
ShortDone(form) == pc > Len(prog.Statements) /\ HasKind(Len(prog.Statements), form)

\* The failing child was evaluated once and yielded an error, nothing
\* guarded by it was evaluated, and its error is the outcome
ShortCircuited ==
    /\ Cardinality(Entries("failing")) = 1
    /\ \A k \in Entries("failing") :
          /\ store.trace[k].t \in Errors
          /\ outcome = store.trace[k].o
    /\ Entries("guarded") = {}

\* C23: when the condition of an if statement evaluates to an Error or a
\* CustomError no branch body is evaluated and the error is the result of
\* the if; when the callee expression or an argument of a call does, the
\* callee's body is not invoked and that error is the result of the call.
C23_ErrorShortCircuits ==
    \A form \in ShortForms : ShortDone(form) => ShortCircuited

(***************************************************************************)
(* Errors in init and in a module body                                     *)
(***************************************************************************)
UnwindDone(form) == pc > Len(prog.Statements) /\ HasKind(Len(prog.Statements), form)

\* The failing statement was evaluated once and its error is the outcome
Unwound ==
    /\ Cardinality(Entries("unwinding")) = 1
    /\ \A k \in Entries("unwinding") :
          /\ store.trace[k].t \in Errors
          /\ outcome = store.trace[k].o

\* C24: when init yields an Error or a CustomError during instantiation,
\* calling the grimoire yields that error and not the new Instance; when
\* the body of an imported module yields one, the import yields that error.
C24_InitAndImportErrorsUnwind ==
    \A form \in UnwindForms : UnwindDone(form) => Unwound

(***************************************************************************)
(* Sentinels and calls                                                     *)
(***************************************************************************)
SentinelDone == pc > Len(prog.Statements) /\ HasKind(Len(prog.Statements), "sentinel")

InLoop == prog.Statements[Len(prog.Statements)].kind = "ForStatement"

\* C25: the result of calling a Function or a BoundMethod is never the Stop
\* or the Skip sentinel, so a stop or skip executed in the callee does not
\* break or continue the caller's loop: the loop runs every pass to its end.
C25_SentinelStaysInCallee ==
    SentinelDone =>
        /\ Entries("crossing") # {}
        /\ \A k \in Entries("crossing") : store.trace[k].t \notin {"STOP", "SKIP"}
        /\ InLoop => /\ Cardinality(Entries("crossing")) = 2
                     /\ IsInteger(store, "count")
                     /\ ValueOf(store, "count") = 2

(***************************************************************************)
(* super                                                                   *)
(***************************************************************************)
SuperCalled == pc > Len(prog.Statements) /\ HasKind(Len(prog.Statements), "super")

\* The stack was exhausted by the call c.m()
SuperOverflowed == phase = "fatal" /\ HasKind(pc - 1, "super")

\* C26: super.m in B's method m dispatches to A's m, also when self is an
\* instance of C, which inherited m from B: the call c.m() runs A.m exactly
\* once, yields its result, and the chain of super calls terminates.
C26_SuperDispatch ==
    /\ ~SuperOverflowed
    /\ SuperCalled =>
          /\ Cardinality(Entries("A.m")) = 1
          /\ Cardinality(Entries("B.m")) = 1
          /\ Type(store, outcome) = "INTEGER"
          /\ store.heap[outcome].Value = 1

(***************************************************************************)
(* Aliases of an incremented name                                          *)
(***************************************************************************)
AliasDone(k) == pc > Len(prog.Statements) /\ HasKind(Len(prog.Statements), k)

\* The value seen through the other binding
Held(k) ==
    CASE k \in {"alias y", "alias ++x"} -> ValueOf(store, "y")
      [] k = "alias a" -> store.heap[store.heap[Binding(store, "a")].Elements[1]].Value
      [] k = "alias g.v" ->
            store.heap[store.envs[store.heap[Binding(store, "g")].Env].store["v"]].Value
      [] k = "outer x" -> ValueOf(store, "x")

\* C27: ++x, --x, x++, x-- and x += 1 change only the binding of x in the
\* current environment: what was assigned from x before (y after y = x, the
\* element of a after a = [x], the field g.v, y after y = ++x) keeps its
\* value, and so does the binding of x in the outer environment when the
\* operation runs in a function.
C27_OnlyTheBindingChanges ==
    \A k \in AliasKinds :
        AliasDone(k) => Held(k) = IF k = "alias ++x" THEN 6 ELSE 5

(***************************************************************************)
(* Negation                                                                *)
(***************************************************************************)
Negated ==
    /\ pc > Len(prog.Statements)
    /\ \E operator \in NegationOperators : HasKind(Len(prog.Statements), operator)

\* C28: !v and not v are True exactly when v is falsy under isTruthy, the
\* rule of if, while, and, or, and False exactly when v is truthy.
C28_NegationAgreesWithTruthiness ==
    Negated =>
        /\ Entries("negated") # {}
        /\ \A k \in Entries("negated") :
              outcome = nativeBoolToBooleanObject(~isTruthy(store, store.trace[k].o))

====
